---- MODULE Spec2Model ----
(***************************************************************************)
(* Request orchestration of vllm.entrypoints.llm.LLM: the request counter, *)
(* the submission pipeline (_validate_and_add_requests, _add_request), the *)
(* drain loop and the output collation (_run_engine), as driven by         *)
(* generate, encode and score on one LLM object, and what generate and     *)
(* encode do before they submit: the runner type check, the legacy         *)
(* arguments (_convert_v1_inputs), the default sampling parameters and     *)
(* the guided decoding options.  beam_search is modelled on top of it:     *)
(* one generate call per iteration, the expansion of every active beam,    *)
(* the pruning of every instance and the final selection.                  *)
(*                                                                         *)
(* The stepping engine (vllm.engine.llm_engine.LLMEngine) and the counter  *)
(* class (vllm.utils.Counter) are collaborators of llm.py; they are        *)
(* modelled at their boundary: add_request, step, has_unfinished_requests, *)
(* next; so are the model configuration (runner_type,                      *)
(* get_diff_sampling_param), parse_and_batch_prompt and the beam classes   *)
(* of vllm.beam_search (BeamSearchInstance, BeamSearchSequence, the sort   *)
(* key).  Multimodal data are left out.                                    *)
(*                                                                         *)
(* Modelled beside it, each on state of its own: generate on               *)
(* SamplingParams objects the caller passes again (sampling_params), the   *)
(* submission and drain loops with use_tqdm and without (progress),        *)
(* steer_vectors.algorithms.direct.DirectAlgorithm (direct) and            *)
(* LLM.deprecate_legacy_api with its flag (DEPRECATE_LEGACY,               *)
(* legacy_contexts).                                                       *)
(***************************************************************************)
EXTENDS Integers, Sequences, FiniteSets, TLC

VARIABLES
    request_counter,  \* self.request_counter: the next value next() returns
    engine,           \* request ids the engine holds as unfinished
    pc,               \* position of the control thread: idle / add / run /
                      \* beam_step / beam_expand / done
    call,             \* arguments of the call in progress (or of the last
                      \* one); call.supplied keeps params as the caller
                      \* passed them
    idx,              \* loop index of `for i, prompt in enumerate(it)`
    outputs,          \* _run_engine's local list `outputs`
    result,           \* how the last call ended: nothing yet / return / raise
    start_counter,    \* request_counter when the call was entered
    start_engine,     \* engine's unfinished set when the call was entered
    added,            \* the engine.add_request invocations of this call
    issued,           \* every value the counter has handed out, in order
    finished_log,     \* the updates with finished = TRUE that step() returned
    step_failed,      \* a step() of this call raised
    runner_type,      \* llm_engine.model_config.runner_type
    default_sampling_params,  \* self.default_sampling_params
    sampling_params,  \* SamplingParams objects the caller keeps between calls
    progress,         \* a call with use_tqdm and its twin without, side by side
    direct,           \* a DirectAlgorithm object and the tensors it refers to
    DEPRECATE_LEGACY, \* LLM.DEPRECATE_LEGACY, the class-wide flag
    legacy_contexts,  \* the deprecate_legacy_api contexts that are open, outermost first
    bs                \* the frame of beam_search: its parameters and locals

vars == <<request_counter, engine, pc, call, idx, outputs, result,
          start_counter, start_engine, added, issued, finished_log,
          step_failed, runner_type, DEPRECATE_LEGACY, legacy_contexts,
          direct, progress, sampling_params, default_sampling_params, bs>>

----------------------------------------------------------------------------
(* Bounds of the model *)

\* largest number of prompts in one call
MaxN == 3

\* calls are entered only while the counter is below this value
MaxCounter == 4

\* largest number of status updates one engine tick returns
MaxStepOutputs == 2

\* number of SamplingParams objects the caller holds
MaxObjects == 2

\* number of tensors made in the life of a DirectAlgorithm object
MaxTensors == 3

\* depth to which deprecate_legacy_api contexts are nested
MaxDepth == 4

----------------------------------------------------------------------------
(* Python values *)

None == "None"

\* str(n) for a non-negative int: its decimal digits, most significant first
RECURSIVE Str(_)
Str(n) == IF n < 10 THEN <<n>> ELSE Append(Str(n \div 10), n % 10)

\* int(s) for a string of decimal digits
RECURSIVE IntOf(_)
IntOf(s) == IF Len(s) = 0 THEN 0
            ELSE 10 * IntOf(SubSeq(s, 1, Len(s) - 1)) + s[Len(s)]

Min(a, b) == IF a <= b THEN a ELSE b

----------------------------------------------------------------------------
(* Arguments of a call, as _validate_and_add_requests receives them *)

LoRANames == <<"lora1", "lora2", "lora3", "lora4", "lora5", "lora6">>

\* a SamplingParams / PoolingParams object; tag 0 is a broadcast value,
\* tag k the k-th element of a per-prompt sequence
SamplingParams(k) ==
    [cls |-> "SamplingParams", tag |-> k, output_kind |-> "CUMULATIVE",
     guided_decoding |-> None, overrides |-> "{}"]
PoolingParams(k) ==
    [cls |-> "PoolingParams", tag |-> k, output_kind |-> None]

\* list lengths tried against n prompts: one short, equal, one long
Lengths(n) == {n - 1, n, n + 1}

PromptArgs ==
    {[single |-> TRUE, items |-> <<1>>]}
    \cup {[single |-> FALSE, items |-> [k \in 1..n |-> k]] : n \in 1..MaxN}

ParamsOf(cls, k) ==
    IF cls = "SamplingParams" THEN SamplingParams(k) ELSE PoolingParams(k)

ParamArgs(cls, n) ==
    {[seq |-> FALSE, items |-> <<ParamsOf(cls, 0)>>]}
    \cup {[seq |-> TRUE, items |-> [k \in 1..l |-> ParamsOf(cls, k)]] :
              l \in Lengths(n)}

LoRAArgs(n) ==
    {[kind |-> "None", items |-> <<>>],
     [kind |-> "single", items |-> <<"lora">>]}
    \cup {[kind |-> "seq", items |-> SubSeq(LoRANames, 1, l)] : l \in Lengths(n)}

PriorityArgs(n) ==
    {[given |-> FALSE, items |-> <<>>]}
    \cup {[given |-> TRUE, items |-> [k \in 1..l |-> k]] : l \in Lengths(n)}

NoPriority == [given |-> FALSE, items |-> <<>>]

\* the prompt adapter and the steering vector handle of a call
AdapterArgs == {<<None, None>>, <<"prompt_adapter", "steer_vector">>}

\* a legacy argument (prompts as str or list[str], prompt_token_ids as
\* list[int] or list[list[int]]): its form and its Python len()
NoArg == [form |-> "None", len |-> 0]

NumPrompts(prompts) == IF prompts.single THEN 1 ELSE Len(prompts.items)

CallArgs(kind, prompts, params, lora, adapters, priority) ==
    [kind |-> kind, prompts |-> prompts, params |-> params,
     lora_request |-> lora,
     prompt_adapter_request |-> adapters[1],
     steer_vector_request |-> adapters[2],
     priority |-> priority,
     guided_options |-> None,
     guided_options_request |-> None,
     params_is_none |-> FALSE,
     supplied |-> params,
     prompt_type |-> "PromptType",
     v1_prompts |-> NoArg,
     prompt_token_ids |-> NoArg]

NoCall ==
    CallArgs("none", [single |-> FALSE, items |-> <<>>],
             [seq |-> FALSE, items |-> <<>>],
             [kind |-> "None", items |-> <<>>], <<None, None>>, NoPriority)

----------------------------------------------------------------------------
(* Results of a call *)

NoResult == [kind |-> "none", exc |-> None, value |-> <<>>]
Returned(v) == [kind |-> "return", exc |-> None, value |-> v]
Raised(e) == [kind |-> "raise", exc |-> e, value |-> <<>>]

----------------------------------------------------------------------------
(* vllm.utils.Counter *)

\* next(self.request_counter): the value handed out
CounterNext(c) == c

\* the counter after next()
CounterAfterNext(c) == c + 1

----------------------------------------------------------------------------
(* The stepping engine at its boundary *)

\* llm_engine.has_unfinished_requests()
has_unfinished_requests(e) == e # {}

\* llm_engine.add_request(request_id, ...) when the engine accepts it
engine_add_request(e, request_id) == e \cup {request_id}

\* what one llm_engine.step() may return: status updates of distinct
\* unfinished requests, each finished or not
StepChoices(e) ==
    LET Updates == {[request_id |-> r, finished |-> f] :
                        r \in e, f \in BOOLEAN}
        Seqs == UNION {[1..k -> Updates] :
                        k \in 0..Min(MaxStepOutputs, Cardinality(e))}
    IN {u \in Seqs : \A a, b \in 1..Len(u) :
                        a # b => u[a].request_id # u[b].request_id}

\* the engine's unfinished set after a step that returned u
engine_after_step(e, u) ==
    e \ {u[k].request_id : k \in {j \in 1..Len(u) : u[j].finished}}

----------------------------------------------------------------------------
(* Output collation *)

IsFinished(output) == output.finished

\* a drain loop that forgets the `if output.finished` test
RetainedUnfiltered(step_outputs) == step_outputs

\* the updates of one tick that _run_engine appends to `outputs`
Retained(step_outputs) == SelectSeq(step_outputs, IsFinished)

\* key=lambda x: int(x.request_id), compared by sorted()
KeyLE(x, y) == IntOf(x.request_id) <= IntOf(y.request_id)

\* the position sorted() gives to s[k]: after the elements with a smaller
\* key and, the sort being stable, after the earlier ones with an equal key
Rank(s, k) ==
    Cardinality({j \in 1..Len(s) :
                    \/ ~KeyLE(s[k], s[j])
                    \/ (KeyLE(s[j], s[k]) /\ j <= k)})

\* sorted(outputs, key=lambda x: int(x.request_id))
sorted(s) == [p \in 1..Len(s) |-> s[CHOOSE k \in 1..Len(s) : Rank(s, k) = p]]

----------------------------------------------------------------------------
(* The calls *)

GenerateCalls ==
    UNION {{CallArgs("generate", p, sp, l, a, pr) :
                a \in AdapterArgs,
                sp \in ParamArgs("SamplingParams", NumPrompts(p)),
                l \in LoRAArgs(NumPrompts(p)),
                pr \in PriorityArgs(NumPrompts(p))} : p \in PromptArgs}

EncodeCalls ==
    UNION {{CallArgs("encode", p, pp, l, a, NoPriority) :
                a \in AdapterArgs,
                pp \in ParamArgs("PoolingParams", NumPrompts(p)),
                l \in LoRAArgs(NumPrompts(p))} : p \in PromptArgs}

\* _cross_encoding_score: one PoolingParams(), no steering vector
ScoreCalls ==
    UNION {{CallArgs("score", p,
                     [seq |-> FALSE, items |-> <<PoolingParams(0)>>],
                     l, <<a[1], None>>, NoPriority) :
                a \in AdapterArgs,
                l \in LoRAArgs(NumPrompts(p))} :
           p \in {q \in PromptArgs : ~q.single}}

\* no beam search in progress
NoBeamSearch ==
    [beam_width |-> 0, max_tokens |-> 0, ignore_eos |-> FALSE,
     length_penalty |-> 0, instances |-> <<>>, step |-> 0,
     all_beams |-> <<>>, ranges |-> <<>>, output |-> <<>>, inst |-> 0,
     i |-> 0, new_beams |-> <<>>, dropped |-> {}, cut |-> {},
     submissions |-> 0]

\* values of model_config.runner_type
RunnerTypes == {"generate", "transcription", "pooling", "draft"}

\* no deprecate_legacy_api context is open; last is the step taken last
\* on the flag
NoContexts == [stack |-> <<>>, last |-> [op |-> "none", flag |-> TRUE]]

\* the indexes steering vectors are registered under
SteerIndexes == {1, 2}

\* an entry of steer_vectors or the value of active_vector: a reference to
\* a tensor (its place in direct.tensors), an int, None, or no entry
TensorRef(k) == [kind |-> "Tensor", ref |-> k]
NonTensor(kind) == [kind |-> kind, ref |-> 0]

\* DirectAlgorithm.__init__: no steering vector, no active vector
NewDirectAlgorithm ==
    [steer_vectors |-> [i \in SteerIndexes |-> NonTensor("absent")],
     active_vector |-> NonTensor("None"),
     tensors |-> <<>>,
     last |-> [op |-> "__init__", index |-> 0, exc |-> None]]

\* no call is being compared
NoProgress == [phase |-> "idle", kind |-> "none", n |-> 0, i |-> 0,
               runs |-> <<>>]

\* the caller's SamplingParams objects as constructed; the tag of an
\* object is its identity
CallerObjects == [o \in 1..MaxObjects |-> SamplingParams(o)]

\* the LLM object after __init__, on a model of any runner type
Init ==
    /\ request_counter = 0
    /\ engine = {}
    /\ pc = "idle"
    /\ call = NoCall
    /\ idx = 0
    /\ outputs = <<>>
    /\ result = NoResult
    /\ start_counter = 0
    /\ start_engine = {}
    /\ added = <<>>
    /\ issued = <<>>
    /\ finished_log = {}
    /\ step_failed = FALSE
    /\ runner_type \in RunnerTypes
    /\ default_sampling_params = None
    /\ sampling_params = CallerObjects
    /\ progress = NoProgress
    /\ direct = NewDirectAlgorithm
    /\ DEPRECATE_LEGACY = TRUE
    /\ legacy_contexts = NoContexts
    /\ bs = NoBeamSearch

\* the call ends by raising e
Raise(e) ==
    /\ pc' = "done"
    /\ result' = Raised(e)

\* the assignment made on a broadcast value only
FinalOnlyBroadcast(params) ==
    IF params.seq THEN params
    ELSE [params EXCEPT !.items =
            [k \in 1..Len(params.items) |->
                IF params.items[k].cls = "SamplingParams"
                THEN [params.items[k] EXCEPT !.output_kind = "FINAL_ONLY"]
                ELSE params.items[k]]]

\* `sp.output_kind = RequestOutputKind.FINAL_ONLY` on every SamplingParams
FinalOnly(params) ==
    [params EXCEPT !.items =
        [k \in 1..Len(params.items) |->
            IF params.items[k].cls = "SamplingParams"
            THEN [params.items[k] EXCEPT !.output_kind = "FINAL_ONLY"]
            ELSE params.items[k]]]

\* the checks without the one on params
ShapeErrorLoRAOnly(c) ==
    IF c.lora_request.kind = "seq"
       /\ Len(c.lora_request.items) # NumPrompts(c.prompts)
    THEN "ValueError: prompts and lora_request"
    ELSE None

\* the checks without the one on lora_request
ShapeErrorParamsOnly(c) ==
    IF c.params.seq /\ Len(c.params.items) # NumPrompts(c.prompts)
    THEN "ValueError: prompts and params"
    ELSE None

\* the two length checks of _validate_and_add_requests: the error raised,
\* or None
ShapeError(c) ==
    LET num_requests == NumPrompts(c.prompts)
    IN IF c.params.seq /\ Len(c.params.items) # num_requests
       THEN "ValueError: prompts and params"
       ELSE IF c.lora_request.kind = "seq"
               /\ Len(c.lora_request.items) # num_requests
       THEN "ValueError: prompts and lora_request"
       ELSE None

\* the model kinds an operation runs on
RunnerTypeAny(kind, rt) == TRUE

\* the runner_type checks of generate, encode and score
RunnerTypeSupported(kind, rt) ==
    IF kind = "generate" THEN rt \in {"generate", "transcription"}
    ELSE rt = "pooling"

\* a conversion that does not compare the lengths of its arguments
ConvertWithoutLengthCheck(prompts, prompt_token_ids) ==
    IF prompts.form = "None" /\ prompt_token_ids.form = "None"
    THEN [exc |-> "ValueError: either prompts or prompt_token_ids",
          type |-> None, value |-> <<>>]
    ELSE [exc |-> None,
          type |-> IF prompts.form # "None" THEN "TextPrompt"
                   ELSE "TokensPrompt",
          value |-> [i \in 1..(IF prompts.form = "None"
                               THEN prompt_token_ids.len
                               ELSE prompts.len) |-> i]]

\* parse_and_batch_prompt: the number of prompts in a legacy argument
BatchLen(x) == IF x.form \in {"str", "flat"} THEN 1 ELSE x.len

\* _convert_v1_inputs: the error it raises (or None), the type of the
\* prompts it builds and the prompts, each named by its place in the
\* argument it comes from
_convert_v1_inputs(prompts, prompt_token_ids) ==
    IF prompts.form = "None" /\ prompt_token_ids.form = "None"
    THEN [exc |-> "ValueError: either prompts or prompt_token_ids",
          type |-> None, value |-> <<>>]
    ELSE IF /\ prompts.form # "None"
            /\ prompt_token_ids.form # "None"
            /\ prompts.len # prompt_token_ids.len
    THEN [exc |-> "ValueError: lengths of prompts and prompt_token_ids",
          type |-> None, value |-> <<>>]
    ELSE LET num_requests == IF prompts.form # "None"
                             THEN BatchLen(prompts)
                             ELSE BatchLen(prompt_token_ids)
         IN [exc |-> None,
             type |-> IF prompts.form # "None" THEN "TextPrompt"
                      ELSE "TokensPrompt",
             value |-> [i \in 1..num_requests |-> i]]

\* guided_options_request of generate: nothing, a dict of one or of two
\* options, or a GuidedDecodingRequest
GuidedOptionsRequests ==
    {None, "dict of 1", "dict of 2", "GuidedDecodingRequest"}

\* `GuidedDecodingRequest(**guided_options_request)` for a dict
GuidedDecodingRequest(g) == IF g = None THEN None ELSE "GuidedDecodingRequest"

\* values of model_config.get_diff_sampling_param()
DiffSamplingParams == {"{}", "{temperature}"}

\* defaults that ignore the model's configuration
DefaultsIgnoringConfig(cached) == SamplingParams(0)

\* get_default_sampling_params, once self.default_sampling_params is set
get_default_sampling_params(cached) ==
    IF cached # "{}"
    THEN [SamplingParams(0) EXCEPT !.overrides = cached]
    ELSE SamplingParams(0)

\* the call leaves its parameters to the defaults
UsesDefault(a) == a.kind = "generate" /\ a.params_is_none

\* self.default_sampling_params after the call has resolved its parameters:
\* get_default_sampling_params fills it from the model's configuration when
\* it is still None
CachedDefaults(a, cached) ==
    IF UsesDefault(a) /\ cached = None THEN DiffSamplingParams
    ELSE {cached}

\* what generate, encode and score raise before they reach
\* _validate_and_add_requests, or None
EntryError(a, rt) ==
    IF ~RunnerTypeSupported(a.kind, rt)
    THEN "ValueError: runner type"
    ELSE IF /\ a.prompt_token_ids.form # "None"
            /\ _convert_v1_inputs(a.v1_prompts, a.prompt_token_ids).exc # None
    THEN _convert_v1_inputs(a.v1_prompts, a.prompt_token_ids).exc
    ELSE IF a.kind = "generate" /\ a.guided_options_request = "dict of 2"
    THEN "ValueError: only one guided decoding"
    ELSE None

\* the arguments generate and encode pass to _validate_and_add_requests
ValidateArgs(a, cached) ==
    LET conv == _convert_v1_inputs(a.v1_prompts, a.prompt_token_ids)
        legacy == a.prompt_token_ids.form # "None"
    IN [a EXCEPT
          !.prompts = IF legacy THEN [single |-> FALSE, items |-> conv.value]
                      ELSE @,
          !.prompt_type = IF legacy THEN conv.type ELSE @,
          !.params = IF ~a.params_is_none THEN @
                     ELSE IF a.kind = "generate"
                     THEN [seq |-> FALSE,
                           items |-> <<get_default_sampling_params(cached)>>]
                     ELSE [seq |-> FALSE, items |-> <<PoolingParams(0)>>],
          !.guided_options = GuidedDecodingRequest(a.guided_options_request)]

\* _add_guided_params on one SamplingParams: guided_decoding is built from
\* the options
_add_guided_params(sp, guided_options) ==
    IF guided_options = None THEN sp
    ELSE [sp EXCEPT !.guided_decoding = "GuidedDecodingParams of options"]

\* a loop that overwrites guided_decoding without looking at it
GuidedConflictNever(params, guided_options) == 0

\* the first element of params on which _add_guided_params raises, or 0
GuidedConflictAt(params, guided_options) ==
    LET conflicts == {k \in 1..Len(params.items) :
                        /\ params.items[k].cls = "SamplingParams"
                        /\ guided_options # None
                        /\ params.items[k].guided_decoding # None}
    IN IF conflicts = {} THEN 0
       ELSE CHOOSE k \in conflicts : \A j \in conflicts : k <= j

\* the loop `for sp in params` after its first n elements
ParamsLoop(params, guided_options, n) ==
    LET guided == [params EXCEPT !.items =
                      [k \in 1..Len(params.items) |->
                          IF params.items[k].cls = "SamplingParams"
                          THEN _add_guided_params(params.items[k],
                                                  guided_options)
                          ELSE params.items[k]]]
        final == FinalOnly(guided)
    IN [params EXCEPT !.items =
           [k \in 1..Len(params.items) |->
               IF k <= n THEN final.items[k] ELSE params.items[k]]]

\* _validate_and_add_requests up to its submission loop
_validate_and_add_requests(c) ==
    /\ pc = "idle"
    /\ request_counter + NumPrompts(c.prompts) <= MaxCounter
    /\ start_counter' = request_counter
    /\ start_engine' = engine
    /\ idx' = 0
    /\ outputs' = <<>>
    /\ added' = <<>>
    /\ finished_log' = {}
    /\ step_failed' = FALSE
    /\ \E e \in {ShapeError(c)},
          conflict \in {GuidedConflictAt(c.params, c.guided_options)} :
       IF e # None
       THEN /\ Raise(e)
            /\ call' = c
       ELSE IF conflict > 0
       THEN /\ Raise("ValueError: guided_options_request and guided_decoding")
            /\ call' = [c EXCEPT !.params =
                           ParamsLoop(c.params, c.guided_options,
                                      conflict - 1)]
       ELSE /\ pc' = "add"
            /\ result' = NoResult
            /\ call' = [c EXCEPT !.params =
                           ParamsLoop(c.params, c.guided_options,
                                      Len(c.params.items))]
    /\ UNCHANGED <<request_counter, engine, issued, runner_type,
                   DEPRECATE_LEGACY, legacy_contexts,
                   direct, progress,
                   sampling_params, bs>>

\* a call with the arguments a that does not get to the submission loop
EndsAtEntry(a) ==
    /\ pc = "idle"
    /\ start_counter' = request_counter
    /\ start_engine' = engine
    /\ idx' = 0
    /\ outputs' = <<>>
    /\ added' = <<>>
    /\ finished_log' = {}
    /\ step_failed' = FALSE
    /\ call' = a
    /\ UNCHANGED <<request_counter, engine, issued, runner_type,
                   DEPRECATE_LEGACY, legacy_contexts,
                   direct, progress,
                   sampling_params>>

\* generate, encode or score raises e before _validate_and_add_requests
RaiseAtEntry(a, e) == EndsAtEntry(a) /\ Raise(e) /\ UNCHANGED bs

\* the body of generate (a.kind = "generate"), of encode and of score,
\* with the arguments a, up to the submission loop
EnterCall(a) ==
    \E e \in {EntryError(a, runner_type)} :
        IF e # None
        THEN /\ RaiseAtEntry(a, e)
             /\ UNCHANGED default_sampling_params
        ELSE \E cached \in CachedDefaults(a, default_sampling_params) :
                \E c \in {ValidateArgs(a, cached)} :
                    /\ default_sampling_params' = cached
                    /\ _validate_and_add_requests(c)

\* a call is entered when the control thread is free
generate == pc = "idle" /\ \E c \in GenerateCalls : EnterCall(c)

encode == pc = "idle" /\ \E c \in EncodeCalls : EnterCall(c)

score == pc = "idle" /\ \E c \in ScoreCalls : EnterCall(c)

\* the arguments the loop passes to _add_request for the i-th prompt
\* (i counted from 1)
ParamsAt(c, i) == IF c.params.seq THEN c.params.items[i] ELSE c.params.items[1]

\* a loop that passes the first handle of a list with every prompt
LoRAAtFirst(c, i) ==
    IF c.lora_request.kind = "None" THEN None ELSE c.lora_request.items[1]

LoRAAt(c, i) ==
    IF c.lora_request.kind = "seq" THEN c.lora_request.items[i]
    ELSE IF c.lora_request.kind = "single" THEN c.lora_request.items[1]
    ELSE None

\* `priority[i] if priority else 0`: an empty list is falsy
PriorityTruthy(c) == c.priority.given /\ Len(c.priority.items) > 0

PriorityAt(c, i) == IF PriorityTruthy(c) THEN c.priority.items[i] ELSE 0

\* priority[i] raises IndexError
PriorityIndexError(c, i) == PriorityTruthy(c) /\ i > Len(c.priority.items)

\* a submission that forgets to forward the steering vector handle
AddRequestArgsNoSteer(c, i, request_id) ==
    [request_id |-> request_id,
     prompt |-> c.prompts.items[i],
     params |-> ParamsAt(c, i),
     lora_request |-> LoRAAt(c, i),
     prompt_adapter_request |-> c.prompt_adapter_request,
     steer_vector_request |-> None,
     priority |-> PriorityAt(c, i)]

AddRequestArgs(c, i, request_id) ==
    [request_id |-> request_id,
     prompt |-> c.prompts.items[i],
     params |-> ParamsAt(c, i),
     lora_request |-> LoRAAt(c, i),
     prompt_adapter_request |-> c.prompt_adapter_request,
     steer_vector_request |-> c.steer_vector_request,
     priority |-> PriorityAt(c, i)]

\* a request id taken from the position in the batch
NewRequestIdFromIndex(counter, i) == Str(i - 1)

\* `request_id = str(next(self.request_counter))` for the i-th prompt
NewRequestId(counter, i) == Str(CounterNext(counter))

\* where the loop goes after the i-th prompt was submitted
AfterAdd(i) == IF i = NumPrompts(call.prompts) THEN "run" ELSE "add"

\* a submission loop that aborts the requests of the call when one fails
SubmitNextRollingBack(accepted) ==
    /\ pc = "add"
    /\ LET i == idx + 1
           request_id == NewRequestId(request_counter, i)
       IN IF PriorityIndexError(call, i)
          THEN /\ Raise("IndexError: priority")
               /\ UNCHANGED <<request_counter, engine, idx, added, issued>>
          ELSE /\ request_counter' = CounterAfterNext(request_counter)
               /\ issued' = Append(issued, CounterNext(request_counter))
               /\ added' = Append(added, AddRequestArgs(call, i, request_id))
               /\ IF accepted
                  THEN /\ engine' = engine_add_request(engine, request_id)
                       /\ idx' = i
                       /\ pc' = AfterAdd(i)
                       /\ UNCHANGED result
                  ELSE /\ Raise("EngineError: add_request")
                       /\ engine' = start_engine
                       /\ UNCHANGED idx
    /\ UNCHANGED <<call, outputs, start_counter, start_engine, finished_log,
                   step_failed, runner_type, legacy_contexts,
                   DEPRECATE_LEGACY, direct, progress,
                   sampling_params, default_sampling_params, bs>>

\* one iteration of the submission loop: _add_request for the next prompt,
\* which the engine accepts or rejects by raising
SubmitNext(accepted) ==
    /\ pc = "add"
    /\ LET i == idx + 1
           request_id == NewRequestId(request_counter, i)
       IN IF PriorityIndexError(call, i)
          THEN /\ Raise("IndexError: priority")
               /\ UNCHANGED <<request_counter, engine, idx, added, issued>>
          ELSE /\ request_counter' = CounterAfterNext(request_counter)
               /\ issued' = Append(issued, CounterNext(request_counter))
               /\ added' = Append(added, AddRequestArgs(call, i, request_id))
               /\ IF accepted
                  THEN /\ engine' = engine_add_request(engine, request_id)
                       /\ idx' = i
                       /\ pc' = AfterAdd(i)
                       /\ UNCHANGED result
                  ELSE /\ Raise("EngineError: add_request")
                       /\ UNCHANGED <<engine, idx>>
    /\ UNCHANGED <<call, outputs, start_counter, start_engine, finished_log,
                   step_failed, runner_type, legacy_contexts,
                   DEPRECATE_LEGACY, direct, progress,
                   sampling_params, default_sampling_params, bs>>

_add_request == \E accepted \in BOOLEAN : SubmitNext(accepted)

\* a loop that runs until it holds one output per submitted request
LoopUntilAllSubmitted == Len(outputs) < Len(added)

\* the condition of `while self.llm_engine.has_unfinished_requests()`
LoopContinues == has_unfinished_requests(engine)

\* one iteration of the drain loop, in which step() returns step_outputs
_run_engine_tick(step_outputs) ==
    /\ pc = "run"
    /\ LoopContinues
    /\ step_outputs \in StepChoices(engine)
    /\ engine' = engine_after_step(engine, step_outputs)
    /\ outputs' = outputs \o Retained(step_outputs)
    /\ finished_log' = finished_log \cup
            {step_outputs[k] :
                k \in {j \in 1..Len(step_outputs) : step_outputs[j].finished}}
    /\ UNCHANGED <<request_counter, pc, call, idx, result, start_counter,
                   start_engine, added, issued, step_failed, runner_type,
                   DEPRECATE_LEGACY, legacy_contexts,
                   direct,
                   progress,
                   sampling_params,
                   default_sampling_params, bs>>

_run_engine_step == \E u \in StepChoices(engine) : _run_engine_tick(u)

\* a drain loop that swallows the error and goes on ticking
StepRaisedRetry ==
    /\ step_failed' = TRUE
    /\ UNCHANGED <<pc, result>>

\* what _run_engine does when step() raises: nothing, the error propagates
StepRaised ==
    /\ Raise("EngineError: step")
    /\ step_failed' = TRUE

\* one iteration of the drain loop, in which step() raises
_run_engine_step_raises ==
    /\ pc = "run"
    /\ LoopContinues
    /\ StepRaised
    /\ UNCHANGED <<request_counter, engine, call, idx, outputs, start_counter,
                   start_engine, added, issued, finished_log, runner_type,
                   DEPRECATE_LEGACY, legacy_contexts,
                   direct,
                   progress,
                   sampling_params,
                   default_sampling_params, bs>>

\* the drain loop ends: _run_engine returns the sorted outputs, which
\* generate and encode hand to the caller
_run_engine_return ==
    /\ pc = "run"
    /\ ~LoopContinues
    /\ pc' = "done"
    /\ result' = Returned(sorted(outputs))
    /\ UNCHANGED <<request_counter, engine, call, idx, outputs, start_counter,
                   start_engine, added, issued, finished_log, step_failed,
                   runner_type, legacy_contexts, DEPRECATE_LEGACY, direct,
                   progress, sampling_params, default_sampling_params, bs>>

\* the call's frame is gone once the caller has its result
CallOver ==
    /\ pc = "done"
    /\ pc' = "idle"
    /\ call' = NoCall
    /\ idx' = 0
    /\ outputs' = <<>>
    /\ result' = NoResult
    /\ start_counter' = request_counter
    /\ start_engine' = engine
    /\ added' = <<>>
    /\ finished_log' = {}
    /\ step_failed' = FALSE
    /\ bs' = NoBeamSearch
    /\ UNCHANGED <<request_counter, engine, issued, runner_type,
                   DEPRECATE_LEGACY, legacy_contexts,
                   direct, progress,
                   sampling_params,
                   default_sampling_params>>

Next ==
    \/ generate
    \/ encode
    \/ score
    \/ _add_request
    \/ _run_engine_step
    \/ _run_engine_step_raises
    \/ _run_engine_return
    \/ CallOver

Spec == Init /\ [][Next]_vars

\* Legacy arguments: prompts as a str of 1..MaxN characters or a list of
\* 1..MaxN strs (or None), prompt_token_ids as a flat list of 1..MaxN ids or
\* a list of 1..MaxN lists (or None)
V1PromptArgs ==
    {NoArg} \cup {[form |-> f, len |-> n] : f \in {"str", "list"}, n \in 1..MaxN}

TokenIdArgs ==
    {NoArg} \cup {[form |-> f, len |-> n] : f \in {"flat", "list"}, n \in 1..MaxN}

\* params as generate can receive them, with guided_decoding set by the
\* caller on none, on the first or on the last SamplingParams
GuidedParamArgs(n) ==
    {[seq |-> FALSE, items |-> <<[SamplingParams(0) EXCEPT !.guided_decoding = g]>>] :
        g \in {None, "GuidedDecodingParams of caller"}}
    \cup {[seq |-> TRUE,
           items |-> [k \in 1..l |->
                        IF k = at
                        THEN [SamplingParams(k) EXCEPT
                                 !.guided_decoding = "GuidedDecodingParams of caller"]
                        ELSE SamplingParams(k)]] :
             l \in Lengths(n) \ {0}, at \in {0, 1, n}}

PlainCall(kind, p) ==
    CallArgs(kind, p,
             [seq |-> FALSE,
              items |-> <<IF kind = "generate" THEN SamplingParams(0)
                          ELSE PoolingParams(0)>>],
             [kind |-> "None", items |-> <<>>], <<None, None>>, NoPriority)

\* generate with sampling_params, or without (None), and with any
\* guided_options_request
GuidedCalls ==
    UNION {{[PlainCall("generate", p) EXCEPT !.params = sp,
                                            !.supplied = sp,
                                            !.guided_options_request = g] :
                sp \in GuidedParamArgs(NumPrompts(p)),
                g \in GuidedOptionsRequests}
            \cup {[PlainCall("generate", p) EXCEPT
                      !.params_is_none = TRUE,
                      !.params = [seq |-> FALSE, items |-> <<>>],
                      !.supplied = [seq |-> FALSE, items |-> <<>>],
                      !.guided_options_request = g] :
                      g \in GuidedOptionsRequests} : p \in PromptArgs}

\* generate and encode with prompt_token_ids (the legacy form)
LegacyCalls(kind) ==
    {[PlainCall(kind, [single |-> FALSE, items |-> <<>>]) EXCEPT
         !.v1_prompts = p, !.prompt_token_ids = t, !.params_is_none = none] :
        p \in V1PromptArgs, t \in TokenIdArgs \ {NoArg}, none \in BOOLEAN}

generate_guided == pc = "idle" /\ \E c \in GuidedCalls : EnterCall(c)

generate_legacy ==
    pc = "idle" /\ \E c \in LegacyCalls("generate") : EnterCall(c)

encode_legacy == pc = "idle" /\ \E c \in LegacyCalls("encode") : EnterCall(c)

\* _convert_v1_inputs called on its own
convert_v1_inputs ==
    \E p \in V1PromptArgs, t \in TokenIdArgs :
        \E r \in {_convert_v1_inputs(p, t)} :
            /\ EndsAtEntry([NoCall EXCEPT !.kind = "_convert_v1_inputs",
                                          !.v1_prompts = p,
                                          !.prompt_token_ids = t,
                                          !.prompt_type = r.type])
            /\ IF r.exc # None
               THEN Raise(r.exc)
               ELSE /\ pc' = "done"
                    /\ result' = Returned(r.value)
            /\ UNCHANGED <<default_sampling_params, bs>>

\* What generate and encode do with their arguments before they submit, on
\* an engine that rejects no request and fails no tick.
NextEntry ==
    \/ generate_guided
    \/ generate_legacy
    \/ encode_legacy
    \/ convert_v1_inputs
    \/ SubmitNext(TRUE)
    \/ _run_engine_step
    \/ _run_engine_return
    \/ CallOver

EntrySpec == Init /\ [][NextEntry]_vars

\* The same program on an engine that rejects no request and fails no tick.
NextReliableEngine ==
    \/ generate
    \/ encode
    \/ score
    \/ SubmitNext(TRUE)
    \/ _run_engine_step
    \/ _run_engine_return
    \/ CallOver

ReliableEngineSpec == Init /\ [][NextReliableEngine]_vars

\* The calls that differ in what they leave in the engine: generate with
\* plain arguments and a priority list of any of the lengths.
DrainCalls ==
    UNION {{CallArgs("generate", p,
                     [seq |-> FALSE, items |-> <<SamplingParams(0)>>],
                     [kind |-> "None", items |-> <<>>], <<None, None>>, pr) :
                pr \in PriorityArgs(NumPrompts(p))} : p \in PromptArgs}

generate_plain == pc = "idle" /\ \E c \in DrainCalls : EnterCall(c)

NextDrain ==
    \/ generate_plain
    \/ _add_request
    \/ _run_engine_step
    \/ _run_engine_step_raises
    \/ _run_engine_return
    \/ CallOver

\* a tick in which at least one request finishes
_run_engine_progress ==
    \E u \in StepChoices(engine) :
        /\ \E k \in 1..Len(u) : u[k].finished
        /\ _run_engine_tick(u)

\* The engine eventually finishes a request whenever it holds one, and the
\* control thread keeps running.
LiveSpec ==
    /\ Init
    /\ [][NextDrain]_vars
    /\ WF_vars(_run_engine_progress)
    /\ WF_vars(_run_engine_return)

----------------------------------------------------------------------------
(* beam_search *)

\* largest beam_width of a beam search
MaxBeamWidth == 2

\* largest max_tokens of a beam search
MaxTokens == 3

\* a step of a beam search is taken only while the counter stays within this
\* value
MaxBeamRequests == 5

\* tokenizer.eos_token_id
EosTokenId == 0

\* BeamSearchParams: beam_width, max_tokens, ignore_eos, length_penalty
BeamSearchParams ==
    [beam_width : 1..MaxBeamWidth, max_tokens : 1..MaxTokens,
     ignore_eos : BOOLEAN, length_penalty : {0, 1}]

\* the prompts argument: one or two TokensPrompt, by their token ids
BeamPrompts == {<< <<7>> >>, << <<7>>, <<8, 9>> >>}

\* result.outputs[0].logprobs[0] of a one-token generation: the candidate
\* next tokens with their log-probabilities, in the order of the dict
LogprobDicts ==
    {<<[token_id |-> 0, logprob |-> -1]>>,
     <<[token_id |-> 1, logprob |-> -1], [token_id |-> 0, logprob |-> -2]>>,
     <<[token_id |-> 2, logprob |-> 0], [token_id |-> 1, logprob |-> -1]>>,
     <<[token_id |-> 1, logprob |-> -1], [token_id |-> 2, logprob |-> -1],
       [token_id |-> 0, logprob |-> -2], [token_id |-> 3, logprob |-> -3]>>}

\* what the engine can return for one beam when asked for `logprobs`
\* log-probabilities: result.outputs[0].logprobs is None, or its first
\* element is a dict of at most that many candidates
ResultChoices(logprobs) ==
    {[is_none |-> TRUE, dict |-> <<>>]}
    \cup {[is_none |-> FALSE, dict |-> d] :
              d \in {x \in LogprobDicts : Len(x) <= logprobs}}

BeamSearchSequence(tokens, logprobs, lora_request, cum_logprob) ==
    [tokens |-> tokens, logprobs |-> logprobs, lora_request |-> lora_request,
     cum_logprob |-> cum_logprob]

\* BeamSearchInstance(prompt_tokens, lora_request=lora_req, logprobs=None)
BeamSearchInstance(prompt_tokens, lora_request) ==
    [prompt_tokens |-> prompt_tokens,
     lora_request |-> lora_request,
     beams |-> <<BeamSearchSequence(prompt_tokens, <<>>, lora_request, 0)>>,
     completed |-> <<>>]

\* a helper that takes a list of any length, one handle per prompt as far
\* as the list goes
LoraRequestsUnchecked(lora_request, n) ==
    IF lora_request.kind = "seq"
    THEN [exc |-> None,
          value |-> [k \in 1..n |->
                        IF k <= Len(lora_request.items)
                        THEN lora_request.items[k] ELSE None]]
    ELSE IF lora_request.kind = "None"
    THEN [exc |-> None, value |-> [k \in 1..n |-> None]]
    ELSE [exc |-> None, value |-> [k \in 1..n |-> lora_request.items[1]]]

\* _get_beam_search_lora_requests: the error raised (or None) and the
\* handle of each of the n prompts
_get_beam_search_lora_requests(lora_request, n) ==
    IF lora_request.kind = "seq" /\ Len(lora_request.items) # n
    THEN [exc |-> "ValueError: lora request list and prompts", value |-> <<>>]
    ELSE IF lora_request.kind = "None"
    THEN [exc |-> None, value |-> [k \in 1..n |-> None]]
    ELSE IF lora_request.kind = "single"
    THEN [exc |-> None, value |-> [k \in 1..n |-> lora_request.items[1]]]
    ELSE [exc |-> "TypeError: invalid lora_request type", value |-> <<>>]

RECURSIVE Pow(_, _)
Pow(b, e) == IF e = 0 THEN 1 ELSE b * Pow(b, e - 1)

\* get_beam_search_score divides cum_logprob by seq_len ** length_penalty,
\* where a final end-of-sequence token does not count in seq_len
ScoreDivisor(x, length_penalty) ==
    LET seq_len == IF x.tokens[Len(x.tokens)] = EosTokenId
                   THEN Len(x.tokens) - 1
                   ELSE Len(x.tokens)
    IN Pow(seq_len, length_penalty)

\* sort_beams_key(x) > sort_beams_key(y), and = : the quotients are compared
\* by cross-multiplication (the divisors are positive)
KeyGreater(x, y, lp) ==
    x.cum_logprob * ScoreDivisor(y, lp) > y.cum_logprob * ScoreDivisor(x, lp)

KeyEqual(x, y, lp) ==
    x.cum_logprob * ScoreDivisor(y, lp) = y.cum_logprob * ScoreDivisor(x, lp)

\* the place of s[k] in sorted(s, key=sort_beams_key, reverse=True): after
\* the elements with a greater key and after the earlier ones with the same
BeamRank(s, k, lp) ==
    Cardinality({j \in 1..Len(s) :
                    \/ KeyGreater(s[j], s[k], lp)
                    \/ (KeyEqual(s[j], s[k], lp) /\ j <= k)})

\* a sort without reverse=True
sorted_ascending(s, lp) ==
    [p \in 1..Len(s) |->
        s[CHOOSE k \in 1..Len(s) : BeamRank(s, k, lp) = Len(s) + 1 - p]]

sorted_beams(s, lp) ==
    [p \in 1..Len(s) |-> s[CHOOSE k \in 1..Len(s) : BeamRank(s, k, lp) = p]]

\* a list cut to nothing more than itself
KeepAll(s, beam_width) == s

\* a cut that keeps one beam too few
TopBeamsOneShort(s, beam_width) == SubSeq(s, 1, Min(beam_width - 1, Len(s)))

\* `sorted_beams[:beam_width]`
TopBeams(s, beam_width) == SubSeq(s, 1, Min(beam_width, Len(s)))

\* a flattening that starts an instance without active beams again from its
\* prompt
RECURSIVE FlattenBeamsRestarting(_)
FlattenBeamsRestarting(instances) ==
    IF instances = <<>> THEN <<>>
    ELSE LET last == instances[Len(instances)]
         IN FlattenBeamsRestarting(SubSeq(instances, 1, Len(instances) - 1))
               \o (IF last.beams = <<>>
                   THEN <<[tokens |-> last.prompt_tokens, logprobs |-> <<>>,
                           lora_request |-> last.lora_request,
                           cum_logprob |-> 0]>>
                   ELSE last.beams)

\* all_beams: the beams of all instances, instance after instance
RECURSIVE FlattenBeams(_)
FlattenBeams(instances) ==
    IF instances = <<>> THEN <<>>
    ELSE FlattenBeams(SubSeq(instances, 1, Len(instances) - 1))
            \o instances[Len(instances)].beams

\* instance_start_and_end: the positions of each instance's beams in
\* all_beams, as (start, end) with start counted from 0 and end excluded
RECURSIVE Positions(_, _)
Positions(instances, n) ==
    IF n = 0 THEN 0
    ELSE Positions(instances, n - 1) + Len(instances[n].beams)

instance_start_and_end(instances) ==
    [n \in 1..Len(instances) |->
        <<Positions(instances, n - 1), Positions(instances, n)>>]

\* a candidate that holds the new token only
NewBeamWithoutParentTokens(current_beam, logprobs, j) ==
    BeamSearchSequence(<<logprobs[j].token_id>>,
                       Append(current_beam.logprobs, logprobs),
                       current_beam.lora_request,
                       current_beam.cum_logprob + logprobs[j].logprob)

\* a candidate that forgets what its parent had accumulated
NewBeamFromScratch(current_beam, logprobs, j) ==
    BeamSearchSequence(Append(current_beam.tokens, logprobs[j].token_id),
                       Append(current_beam.logprobs, logprobs),
                       current_beam.lora_request,
                       logprobs[j].logprob)

\* new_beam for the j-th candidate of the dict logprobs
NewBeam(current_beam, logprobs, j) ==
    BeamSearchSequence(Append(current_beam.tokens, logprobs[j].token_id),
                       Append(current_beam.logprobs, logprobs),
                       current_beam.lora_request,
                       current_beam.cum_logprob + logprobs[j].logprob)

\* a search in which no candidate is ever complete
NeverCompleted(token_id, ignore_eos) == FALSE

\* `token_id == tokenizer.eos_token_id and not ignore_eos`
IsCompleted(token_id, ignore_eos) == token_id = EosTokenId /\ ~ignore_eos

\* the candidates of a beam whose result has the dict res, split into
\* those appended to instance.completed and to instance_new_beams
Candidates(current_beam, res, ignore_eos) ==
    LET candidates ==
            [j \in 1..Len(res) |-> NewBeam(current_beam, res, j)]
        last(x) == x.tokens[Len(x.tokens)]
        done(x) == IsCompleted(last(x), ignore_eos)
        active(x) == ~IsCompleted(last(x), ignore_eos)
    IN [completed |-> SelectSeq(candidates, done),
        new_beams |-> SelectSeq(candidates, active)]

\* an expansion that carries a beam without log-probabilities over
KeptWithoutLogprobs(current_beam, res, ignore_eos) ==
    IF res.is_none
    THEN [completed |-> <<>>, new_beams |-> <<current_beam>>]
    ELSE Candidates(current_beam, res.dict, ignore_eos)

\* the body of `for i in range(start, end)` for one beam and the
\* result res (logprobs None: the `if` skips the beam)
Expand(current_beam, res, ignore_eos) ==
    IF res.is_none
    THEN [completed |-> <<>>, new_beams |-> <<>>]
    ELSE Candidates(current_beam, res.dict, ignore_eos)

\* parameters that ask for beam_width log-probabilities only
BeamSamplingParamsWidthOnly(beam_width) ==
    [cls |-> "SamplingParams", tag |-> 0, output_kind |-> "CUMULATIVE",
     guided_decoding |-> None, overrides |-> "{}",
     logprobs |-> beam_width, max_tokens |-> 1,
     temperature |-> "params.temperature"]

\* beam_search_params, as generate receives it
BeamSamplingParams(beam_width) ==
    [cls |-> "SamplingParams", tag |-> 0, output_kind |-> "CUMULATIVE",
     guided_decoding |-> None, overrides |-> "{}",
     logprobs |-> 2 * beam_width, max_tokens |-> 1,
     temperature |-> "params.temperature"]

\* the arguments of a beam_search call
BeamSearchCalls ==
    UNION {{CallArgs("beam_search", [single |-> FALSE, items |-> p],
                     [seq |-> FALSE, items |-> <<params>>], l,
                     <<None, None>>, NoPriority) :
                params \in BeamSearchParams, l \in LoRAArgs(Len(p))} :
           p \in BeamPrompts}

\* the frame of beam_search when its loop starts
BeamFrame(params, instances) ==
    [beam_width |-> params.beam_width, max_tokens |-> params.max_tokens,
     ignore_eos |-> params.ignore_eos,
     length_penalty |-> params.length_penalty,
     instances |-> instances, step |-> 0, all_beams |-> <<>>,
     ranges |-> <<>>, output |-> <<>>, inst |-> 1, i |-> 0,
     new_beams |-> <<>>, dropped |-> {}, cut |-> {}, submissions |-> 0]

\* beam_search up to its loop: the parameters, the lora handles, one
\* instance per prompt
EnterBeamSearch(c) ==
    /\ EndsAtEntry(c)
    /\ \E lora_requests \in
            {_get_beam_search_lora_requests(c.lora_request,
                                            Len(c.prompts.items))} :
        IF lora_requests.exc # None
        THEN /\ Raise(lora_requests.exc)
             /\ UNCHANGED bs
        ELSE /\ pc' = "beam_step"
             /\ result' = NoResult
             /\ bs' = BeamFrame(c.params.items[1],
                        [n \in 1..Len(c.prompts.items) |->
                            BeamSearchInstance(c.prompts.items[n],
                                               lora_requests.value[n])])
    /\ UNCHANGED default_sampling_params

beam_search == pc = "idle" /\ \E c \in BeamSearchCalls : EnterBeamSearch(c)

\* beam searches without lora_request and with the default ignore_eos and
\* length_penalty
PlainBeamSearchCalls ==
    {c \in BeamSearchCalls :
        /\ c.lora_request.kind = "None"
        /\ ~c.params.items[1].ignore_eos
        /\ c.params.items[1].length_penalty = 1}

beam_search_plain ==
    pc = "idle" /\ \E c \in PlainBeamSearchCalls : EnterBeamSearch(c)

RECURSIVE SeqOfSet(_)
SeqOfSet(S) ==
    IF S = {} THEN <<>>
    ELSE LET x == CHOOSE y \in S : TRUE IN <<x>> \o SeqOfSet(S \ {x})

\* the generate call of one iteration: a tuple of token prompts, the one
\* SamplingParams object, a tuple of lora handles
BeamGenerateCall(all_beams, beam_width) ==
    CallArgs("generate",
             [single |-> FALSE,
              items |-> [k \in 1..Len(all_beams) |-> all_beams[k].tokens]],
             [seq |-> FALSE, items |-> <<BeamSamplingParams(beam_width)>>],
             [kind |-> "seq",
              items |-> [k \in 1..Len(all_beams) |->
                            all_beams[k].lora_request]],
             <<None, None>>, NoPriority)

\* a loop that stops one iteration early
LoopOneShort(step, max_tokens, all_beams) ==
    step < max_tokens - 1 /\ Len(all_beams) # 0

\* a loop that goes through all its iterations
LoopWithoutBreak(step, max_tokens, all_beams) == step < max_tokens

\* `for _ in token_iter` with its `if len(all_beams) == 0: break`
LoopGoesOn(step, max_tokens, all_beams) ==
    step < max_tokens /\ Len(all_beams) # 0

\* one iteration of the loop up to the return of generate, on an engine
\* that accepts every request and finishes all it holds; bs.submissions
\* counts the batches generate has taken
beam_search_step ==
    /\ pc = "beam_step"
    /\ \E all_beams \in {FlattenBeams(bs.instances)} :
        /\ LoopGoesOn(bs.step, bs.max_tokens, all_beams)
        /\ request_counter + Len(all_beams) <= MaxBeamRequests
        /\ \E a \in {BeamGenerateCall(all_beams, bs.beam_width)} :
            \E e \in {EntryError(a, runner_type)}, s \in {ShapeError(a)} :
                IF e # None \/ s # None
                THEN /\ Raise(IF e # None THEN e ELSE s)
                     /\ UNCHANGED <<request_counter, engine, added, issued,
                                    bs>>
                ELSE LET n == Len(all_beams)
                         c == [a EXCEPT !.params =
                                  ParamsLoop(a.params, a.guided_options, 1)]
                         ids == [k \in 1..n |->
                                    NewRequestId(request_counter + k - 1, k)]
                         finished ==
                             [k \in 1..n |->
                                 [request_id |-> ids[k], finished |-> TRUE]]
                         leftover ==
                             [k \in 1..Cardinality(engine) |->
                                 [request_id |-> SeqOfSet(engine)[k],
                                  finished |-> TRUE]]
                     IN /\ request_counter' = request_counter + n
                        /\ issued' = issued \o
                              [k \in 1..n |->
                                  CounterNext(request_counter + k - 1)]
                        /\ added' = added \o
                              [k \in 1..n |-> AddRequestArgs(c, k, ids[k])]
                        /\ engine' = {}
                        /\ bs' = [bs EXCEPT
                              !.all_beams = all_beams,
                              !.ranges = instance_start_and_end(bs.instances),
                              !.output = sorted(leftover \o finished),
                              !.inst = 1,
                              !.i = 0,
                              !.new_beams = <<>>,
                              !.submissions = @ + 1]
                        /\ pc' = "beam_expand"
                        /\ UNCHANGED result
    /\ UNCHANGED <<call, idx, outputs, start_counter, start_engine,
                   finished_log, step_failed, runner_type, legacy_contexts,
                   DEPRECATE_LEGACY, direct,
                   progress, sampling_params,
                   default_sampling_params>>

\* the body of the inner loop for the next beam of the current instance,
\* whose result is r
beam_search_expand ==
    /\ pc = "beam_expand"
    /\ bs.i < bs.ranges[bs.inst][2]
    /\ \E r \in ResultChoices(2 * bs.beam_width) :
        \E x \in {Expand(bs.all_beams[bs.i + 1], r, bs.ignore_eos)} :
            bs' = [bs EXCEPT
                      !.instances[bs.inst].completed = @ \o x.completed,
                      !.new_beams = @ \o x.new_beams,
                      !.i = @ + 1,
                      !.dropped = IF r.is_none
                                  THEN @ \cup {[inst |-> bs.inst,
                                                tokens |->
                                                  bs.all_beams[bs.i + 1].tokens]}
                                  ELSE @]
    /\ UNCHANGED <<request_counter, engine, pc, call, idx, outputs, result,
                   start_counter, start_engine, added, issued, finished_log,
                   step_failed, runner_type, legacy_contexts,
                   DEPRECATE_LEGACY, direct, progress,
                   sampling_params, default_sampling_params>>

\* a pruning that parks the beams it cuts in the completed list
PrunedInstanceKeepingRest(instance, new_beams, beam_width, length_penalty) ==
    LET sorted_new == sorted_beams(new_beams, length_penalty)
    IN [instance EXCEPT
            !.beams = TopBeams(sorted_new, beam_width),
            !.completed = @ \o SubSeq(sorted_new, beam_width + 1,
                                      Len(sorted_new))]

\* instance.beams = sorted(instance_new_beams, key=sort_beams_key,
\* reverse=True)[:beam_width]: nothing else of the instance changes
PrunedInstance(instance, new_beams, beam_width, length_penalty) ==
    [instance EXCEPT
        !.beams = TopBeams(sorted_beams(new_beams, length_penalty),
                           beam_width)]

\* the candidates of an instance the slice [:beam_width] leaves out
CutBeams(new_beams, beam_width, length_penalty) ==
    LET sorted_new == sorted_beams(new_beams, length_penalty)
    IN {sorted_new[k] : k \in (beam_width + 1)..Len(sorted_new)}

\* the end of the inner loop for an instance: its new beams are sorted and
\* cut to beam_width; after the last instance the iteration is over
\* (bs.cut records the candidates the slice left out)
beam_search_prune ==
    /\ pc = "beam_expand"
    /\ bs.i = bs.ranges[bs.inst][2]
    /\ LET last == bs.inst = Len(bs.instances)
       IN /\ bs' = [bs EXCEPT
                       !.instances[bs.inst] =
                           PrunedInstance(@, bs.new_beams, bs.beam_width,
                                          bs.length_penalty),
                       !.cut = @ \cup
                           {[inst |-> bs.inst, tokens |-> b.tokens] :
                                b \in CutBeams(bs.new_beams, bs.beam_width,
                                               bs.length_penalty)},
                       !.new_beams = <<>>,
                       !.inst = IF last THEN 1 ELSE @ + 1,
                       !.step = IF last THEN @ + 1 ELSE @]
          /\ pc' = IF last THEN "beam_step" ELSE "beam_expand"
    /\ UNCHANGED <<request_counter, engine, call, idx, outputs, result,
                   start_counter, start_engine, added, issued, finished_log,
                   step_failed, runner_type, legacy_contexts,
                   DEPRECATE_LEGACY, direct, progress,
                   sampling_params, default_sampling_params>>

\* a final selection that forgets to sort
BestBeamsUnsorted(instance, beam_width, length_penalty) ==
    TopBeams(instance.completed \o instance.beams, beam_width)

\* a final selection among the completed beams alone
BestBeamsOfCompleted(instance, beam_width, length_penalty) ==
    TopBeams(sorted_beams(instance.completed, length_penalty), beam_width)

\* best_beams of an instance
BestBeams(instance, beam_width, length_penalty) ==
    TopBeams(sorted_beams(instance.completed \o instance.beams,
                          length_penalty),
             beam_width)

\* the loop is over (max_tokens iterations, or no beam left): the beams of
\* each instance join its completed ones and the best of them are returned
beam_search_return ==
    /\ pc = "beam_step"
    /\ ~LoopGoesOn(bs.step, bs.max_tokens, FlattenBeams(bs.instances))
    /\ bs' = [bs EXCEPT !.instances =
                 [n \in 1..Len(bs.instances) |->
                     [bs.instances[n] EXCEPT !.completed =
                         @ \o bs.instances[n].beams]]]
    /\ result' = Returned([n \in 1..Len(bs.instances) |->
                              BestBeams(bs.instances[n], bs.beam_width,
                                        bs.length_penalty)])
    /\ pc' = "done"
    /\ UNCHANGED <<request_counter, engine, call, idx, outputs,
                   start_counter, start_engine, added, issued, finished_log,
                   step_failed, runner_type, legacy_contexts,
                   DEPRECATE_LEGACY, direct, progress,
                   sampling_params, default_sampling_params>>

NextBeam ==
    \/ beam_search
    \/ beam_search_step
    \/ beam_search_expand
    \/ beam_search_prune
    \/ beam_search_return
    \/ CallOver

\* beam searches on a generative model and on a pooling model
InitBeam == Init /\ runner_type \in {"generate", "pooling"}

BeamSpec == InitBeam /\ [][NextBeam]_vars

NextPlainBeam ==
    \/ beam_search_plain
    \/ beam_search_step
    \/ beam_search_expand
    \/ beam_search_prune
    \/ beam_search_return
    \/ CallOver

\* beam searches on an LLM object that generate is also called on, on an
\* engine that rejects no request and fails no tick
NextBeamAndGenerate ==
    \/ generate_plain
    \/ SubmitNext(TRUE)
    \/ _run_engine_step
    \/ _run_engine_return
    \/ beam_search_plain
    \/ beam_search_step
    \/ beam_search_expand
    \/ beam_search_prune
    \/ beam_search_return
    \/ CallOver

BeamAndGenerateSpec == InitBeam /\ [][NextBeamAndGenerate]_vars

\* the control thread goes on with a beam search it has entered
LiveBeamSpec ==
    /\ InitBeam
    /\ [][NextPlainBeam]_vars
    /\ WF_vars(beam_search_step)
    /\ WF_vars(beam_search_expand)
    /\ WF_vars(beam_search_prune)
    /\ WF_vars(beam_search_return)

----------------------------------------------------------------------------
(* generate with SamplingParams objects the caller keeps and passes again *)

\* sampling_params of generate made of the caller's objects: one object, or
\* a list of n references (the same object may occur twice)
SharedParamArgs(n) ==
    {[seq |-> FALSE, items |-> <<sampling_params[o]>>] : o \in 1..MaxObjects}
    \cup {[seq |-> TRUE, items |-> [k \in 1..n |-> sampling_params[refs[k]]]] :
             refs \in [1..n -> 1..MaxObjects]}

SharedCalls ==
    UNION {{[PlainCall("generate", p) EXCEPT !.params = sp,
                                            !.supplied = sp,
                                            !.guided_options_request = g] :
                sp \in SharedParamArgs(NumPrompts(p)),
                g \in GuidedOptionsRequests} : p \in PromptArgs}

\* the objects behind the elements of params
RefsOf(params) == [k \in 1..Len(params.items) |-> params.items[k].tag]

\* a loop that works on copies of the caller's objects
RECURSIVE GuidedLoopOnCopies(_, _, _, _)
GuidedLoopOnCopies(objects, refs, guided_options, k) ==
    IF k > Len(refs) THEN [objects |-> objects, conflict |-> 0]
    ELSE IF guided_options # None /\ objects[refs[k]].guided_decoding # None
    THEN [objects |-> objects, conflict |-> k]
    ELSE GuidedLoopOnCopies(objects, refs, guided_options, k + 1)

\* the loop `for sp in params` from its k-th element on, on the objects
\* themselves: _add_guided_params raises on an object that has
\* guided_decoding, or sets it; then output_kind is set. It yields the
\* objects as the loop leaves them and the element it raised on, or 0
RECURSIVE GuidedLoop(_, _, _, _)
GuidedLoop(objects, refs, guided_options, k) ==
    IF k > Len(refs) THEN [objects |-> objects, conflict |-> 0]
    ELSE IF guided_options # None /\ objects[refs[k]].guided_decoding # None
    THEN [objects |-> objects, conflict |-> k]
    ELSE GuidedLoop(
            [objects EXCEPT ![refs[k]] =
                [_add_guided_params(@, guided_options) EXCEPT
                    !.output_kind = "FINAL_ONLY"]],
            refs, guided_options, k + 1)

\* _validate_and_add_requests up to its submission loop, on the caller's
\* objects
_validate_and_add_shared(c) ==
    /\ pc = "idle"
    /\ request_counter + NumPrompts(c.prompts) <= MaxCounter
    /\ start_counter' = request_counter
    /\ start_engine' = engine
    /\ idx' = 0
    /\ outputs' = <<>>
    /\ added' = <<>>
    /\ finished_log' = {}
    /\ step_failed' = FALSE
    /\ \E e \in {ShapeError(c)},
          r \in {GuidedLoop(sampling_params, RefsOf(c.params),
                            c.guided_options, 1)} :
       IF e # None
       THEN /\ Raise(e)
            /\ call' = c
            /\ UNCHANGED sampling_params
       ELSE /\ sampling_params' = r.objects
            /\ call' = [c EXCEPT !.params.items =
                           [k \in 1..Len(c.params.items) |->
                               r.objects[c.params.items[k].tag]]]
            /\ IF r.conflict > 0
               THEN Raise("ValueError: guided_options_request and guided_decoding")
               ELSE /\ pc' = "add"
                    /\ result' = NoResult
    /\ UNCHANGED <<request_counter, engine, issued, runner_type,
                   DEPRECATE_LEGACY, legacy_contexts,
                   direct, progress, bs>>

\* generate called with objects the caller holds
generate_shared ==
    /\ pc = "idle"
    /\ \E a \in SharedCalls :
        \E e \in {EntryError(a, runner_type)} :
            IF e # None
            THEN RaiseAtEntry(a, e)
            ELSE \E c \in {ValidateArgs(a, default_sampling_params)} :
                    _validate_and_add_shared(c)
    /\ UNCHANGED default_sampling_params

NextShared ==
    \/ generate_shared
    \/ SubmitNext(TRUE)
    \/ _run_engine_step
    \/ _run_engine_return
    \/ CallOver

InitShared == Init /\ runner_type = "generate"

SharedParamsSpec == InitShared /\ [][NextShared]_vars

----------------------------------------------------------------------------
(* Progress reporting: the submission loop and _run_engine of one call,   *)
(* run with use_tqdm and without on the same prompts, from the same        *)
(* counter and with the same step() results                                *)

\* the locals and the LLM of one run: runs[1] has use_tqdm = True,
\* runs[2] has use_tqdm = False
UseTqdm(r) == r = 1

RunAtEntry(c) ==
    [request_counter |-> c, engine |-> {}, added |-> <<>>,
     adding_n |-> 0, pbar_total |-> 0, pbar_n |-> 0, pbar_closed |-> FALSE,
     total_in_toks |-> 0, total_out_toks |-> 0,
     outputs |-> <<>>, result |-> NoResult]

\* one iteration of `for i, prompt in enumerate(it)`: with use_tqdm, `it`
\* is the bar wrapped around the prompts, which counts what it hands out
AddIteration(use_tqdm, loc, i) ==
    LET request_id == NewRequestId(loc.request_counter, i)
    IN [loc EXCEPT
          !.adding_n = IF use_tqdm THEN @ + 1 ELSE @,
          !.request_counter = CounterAfterNext(@),
          !.added = Append(@, [request_id |-> request_id, prompt |-> i]),
          !.engine = engine_add_request(@, request_id)]

\* the start of _run_engine: the bar is made for the unfinished requests
RunEngineStart(use_tqdm, loc) ==
    [loc EXCEPT !.pbar_total =
        IF use_tqdm THEN Cardinality(loc.engine) ELSE @]

\* a loop body that collects the finished outputs only under use_tqdm
RunEngineBodyUnderTqdm(use_tqdm, loc, output) ==
    IF ~(output.finished /\ use_tqdm) THEN loc
    ELSE IF output.cls = "RequestOutput"
    THEN [loc EXCEPT
            !.outputs = Append(@, output),
            !.total_in_toks = @ + output.prompt_len * output.n,
            !.total_out_toks = @ + output.out_toks,
            !.pbar_n = @ + output.n]
    ELSE [loc EXCEPT !.outputs = Append(@, output), !.pbar_n = @ + 1]

\* the body of `for output in step_outputs`
RunEngineBody(use_tqdm, loc, output) ==
    IF ~output.finished THEN loc
    ELSE LET appended == [loc EXCEPT !.outputs = Append(@, output)]
         IN IF ~use_tqdm THEN appended
            ELSE IF output.cls = "RequestOutput"
            THEN [appended EXCEPT
                    !.total_in_toks = @ + output.prompt_len * output.n,
                    !.total_out_toks = @ + output.out_toks,
                    !.pbar_n = @ + output.n]
            ELSE [appended EXCEPT !.pbar_n = @ + 1]

\* one tick of the drain loop on the step outputs u
RECURSIVE RunEngineTick(_, _, _, _)
RunEngineTick(use_tqdm, loc, u, k) ==
    IF k > Len(u)
    THEN [loc EXCEPT !.engine = engine_after_step(@, u)]
    ELSE RunEngineTick(use_tqdm, RunEngineBody(use_tqdm, loc, u[k]), u, k + 1)

\* the end of _run_engine
RunEngineReturn(use_tqdm, loc) ==
    [loc EXCEPT !.pbar_closed = use_tqdm,
                !.result = Returned(sorted(loc.outputs))]

\* the outputs step() returns for the updates u of a call of this kind: a
\* RequestOutput has n completions of one token each and a prompt of two
\* tokens, a PoolingRequestOutput has neither
StepOutputs(kind, u) ==
    IF kind = "generate"
    THEN {[k \in 1..Len(u) |->
              [request_id |-> u[k].request_id, finished |-> u[k].finished,
               cls |-> "RequestOutput", n |-> ns[k], prompt_len |-> 2,
               out_toks |-> ns[k]]] : ns \in [1..Len(u) -> {1, 2}]}
    ELSE {[k \in 1..Len(u) |->
              [request_id |-> u[k].request_id, finished |-> u[k].finished,
               cls |-> "PoolingRequestOutput", n |-> 0, prompt_len |-> 0,
               out_toks |-> 0]]}

ProgressFrame == UNCHANGED <<request_counter, engine, pc, call, idx, outputs,
                             result, start_counter, start_engine, added,
                             issued, finished_log, step_failed, runner_type,
                             DEPRECATE_LEGACY, legacy_contexts, direct,
                             sampling_params, default_sampling_params, bs>>

\* generate or encode is called on n prompts, with use_tqdm and without
progress_call ==
    /\ progress.phase = "idle"
    /\ \E kind \in {"generate", "encode"}, n \in 1..MaxN, c \in 0..1 :
          progress' = [phase |-> "add", kind |-> kind, n |-> n, i |-> 0,
                       runs |-> [r \in 1..2 |-> RunAtEntry(c)]]
    /\ ProgressFrame

\* the next prompt is submitted; after the last one _run_engine starts
progress_add ==
    /\ progress.phase = "add"
    /\ LET i == progress.i + 1
           last == i = progress.n
       IN progress' = [progress EXCEPT
              !.i = i,
              !.phase = IF last THEN "run" ELSE "add",
              !.runs = [r \in 1..2 |->
                  LET loc == AddIteration(UseTqdm(r), progress.runs[r], i)
                  IN IF last THEN RunEngineStart(UseTqdm(r), loc) ELSE loc]]
    /\ ProgressFrame

\* one tick: step() returns the same outputs in both runs
progress_tick ==
    /\ progress.phase = "run"
    /\ has_unfinished_requests(progress.runs[2].engine)
    /\ \E u \in StepChoices(progress.runs[2].engine) :
          \E o \in StepOutputs(progress.kind, u) :
             progress' = [progress EXCEPT !.runs =
                 [r \in 1..2 |->
                     RunEngineTick(UseTqdm(r), progress.runs[r], o, 1)]]
    /\ ProgressFrame

progress_return ==
    /\ progress.phase = "run"
    /\ ~has_unfinished_requests(progress.runs[2].engine)
    /\ progress' = [progress EXCEPT
          !.phase = "done",
          !.runs = [r \in 1..2 |->
                       RunEngineReturn(UseTqdm(r), progress.runs[r])]]
    /\ ProgressFrame

progress_over ==
    /\ progress.phase = "done"
    /\ progress' = NoProgress
    /\ ProgressFrame

NextProgress ==
    \/ progress_call
    \/ progress_add
    \/ progress_tick
    \/ progress_return
    \/ progress_over

InitProgress == Init /\ runner_type = "generate"

ProgressSpec == InitProgress /\ [][NextProgress]_vars

----------------------------------------------------------------------------
(* steer_vectors.algorithms.direct.DirectAlgorithm *)

\* the payloads set_steer_vector is called with: a tensor (its shape and
\* the value of its elements) or None
Payloads ==
    {[kind |-> "Tensor", shape |-> 1, value |-> 1],
     [kind |-> "Tensor", shape |-> 2, value |-> 2],
     [kind |-> "None", shape |-> 0, value |-> 0]}

ScaleFactors == {1, 2}

\* payload * scale_factor: a new tensor
Scaled(payload, scale_factor) ==
    [shape |-> payload.shape, value |-> payload.value * scale_factor]

\* torch.zeros(shape, device=device, dtype=dtype)
Zeros(t) == [shape |-> t.shape, value |-> 0]

Called(op, index, exc) == [op |-> op, index |-> index, exc |-> exc]

\* set_steer_vector on the object d
set_steer_vector(d, index, payload, scale_factor) ==
    IF payload.kind # "Tensor"
    THEN [d EXCEPT !.last = Called("set_steer_vector", index,
                                   "ValueError: requires payload")]
    ELSE [d EXCEPT
            !.tensors = Append(@, Scaled(payload, scale_factor)),
            !.steer_vectors[index] = TensorRef(Len(d.tensors) + 1),
            !.last = Called("set_steer_vector", index, None)]

\* a reset that zeroes the stored tensor in place
ResetInPlace(d, index) ==
    LET entry == d.steer_vectors[index]
    IN IF entry.kind = "absent"
       THEN [d EXCEPT !.last = Called("reset_steer_vector", index, None)]
       ELSE IF entry.kind = "Tensor"
       THEN [d EXCEPT
               !.tensors[entry.ref] = Zeros(@),
               !.last = Called("reset_steer_vector", index, None)]
       ELSE [d EXCEPT
               !.steer_vectors[index] = NonTensor("None"),
               !.last = Called("reset_steer_vector", index, None)]

\* reset_steer_vector on the object d
reset_steer_vector(d, index) ==
    LET entry == d.steer_vectors[index]
    IN IF entry.kind = "absent"
       THEN [d EXCEPT !.last = Called("reset_steer_vector", index, None)]
       ELSE IF entry.kind = "Tensor"
       THEN [d EXCEPT
               !.tensors = Append(@, Zeros(d.tensors[entry.ref])),
               !.steer_vectors[index] = TensorRef(Len(d.tensors) + 1),
               !.last = Called("reset_steer_vector", index, None)]
       ELSE [d EXCEPT
               !.steer_vectors[index] = NonTensor("None"),
               !.last = Called("reset_steer_vector", index, None)]

\* set_active_tensor on the object d; index 0 stands for None
set_active_tensor(d, index) ==
    [d EXCEPT
        !.active_vector =
            IF index # 0 /\ d.steer_vectors[index].kind # "absent"
            THEN IF d.steer_vectors[index].kind # "Tensor"
                 THEN NonTensor("None")
                 ELSE d.steer_vectors[index]
            ELSE NonTensor("None"),
        !.last = Called("set_active_tensor", index, None)]

DirectFrame == UNCHANGED <<request_counter, engine, pc, call, idx, outputs,
                           result, start_counter, start_engine, added, issued,
                           finished_log, step_failed, runner_type,
                           DEPRECATE_LEGACY, legacy_contexts, progress,
                           sampling_params, default_sampling_params, bs>>

call_set_steer_vector ==
    /\ Len(direct.tensors) < MaxTensors
    /\ \E index \in SteerIndexes, payload \in Payloads,
          scale_factor \in ScaleFactors :
          direct' = set_steer_vector(direct, index, payload, scale_factor)
    /\ DirectFrame

\* an int is stored under an index (steer_vectors: dict[int, Tensor | int])
store_int ==
    /\ \E index \in SteerIndexes :
          direct' = [direct EXCEPT
                        !.steer_vectors[index] = NonTensor("int"),
                        !.last = Called("steer_vectors[index] = int",
                                        index, None)]
    /\ DirectFrame

call_reset_steer_vector ==
    /\ Len(direct.tensors) < MaxTensors
    /\ \E index \in SteerIndexes :
          direct' = reset_steer_vector(direct, index)
    /\ DirectFrame

call_set_active_tensor ==
    /\ \E index \in SteerIndexes \cup {0} :
          direct' = set_active_tensor(direct, index)
    /\ DirectFrame

NextDirect ==
    \/ call_set_steer_vector
    \/ store_int
    \/ call_reset_steer_vector
    \/ call_set_active_tensor

InitDirect == Init /\ runner_type = "generate"

DirectSpec == InitDirect /\ [][NextDirect]_vars

----------------------------------------------------------------------------
(* LLM.deprecate_legacy_api and the flag it toggles *)

\* an exit that resets the flag in a finally clause
ExitWithFinally(flag, raised) == FALSE

\* the flag when the context is left: `cls.DEPRECATE_LEGACY = False` is
\* reached after the yield only if the body did not raise
deprecate_legacy_api_exit(flag, raised) == IF raised THEN flag ELSE FALSE

\* a context as it is entered; entered_with is the flag before the entry,
\* nested_exited tells that a context opened in its body has exited
\* normally
NewContext(flag) == [entered_with |-> flag, nested_exited |-> FALSE]

LegacyFrame == UNCHANGED <<request_counter, engine, pc, call, idx, outputs,
                           result, start_counter, start_engine, added, issued,
                           finished_log, step_failed, runner_type, direct,
                           progress, sampling_params,
                           default_sampling_params, bs>>

\* `with LLM.deprecate_legacy_api():` is entered
deprecate_legacy_api_enter ==
    /\ Len(legacy_contexts.stack) < MaxDepth
    /\ DEPRECATE_LEGACY' = TRUE
    /\ legacy_contexts' =
          [stack |-> Append(legacy_contexts.stack,
                            NewContext(DEPRECATE_LEGACY)),
           last |-> [op |-> "enter", flag |-> DEPRECATE_LEGACY]]
    /\ LegacyFrame

\* the body of the innermost context ends, normally or by raising (what
\* it raises reaches the body of the context around it, which may catch it)
deprecate_legacy_api_leave(raised) ==
    /\ legacy_contexts.stack # <<>>
    /\ LET n == Len(legacy_contexts.stack)
       IN /\ DEPRECATE_LEGACY' =
                deprecate_legacy_api_exit(DEPRECATE_LEGACY, raised)
          /\ legacy_contexts' =
                [stack |-> [k \in 1..(n - 1) |->
                              [legacy_contexts.stack[k] EXCEPT
                                  !.nested_exited = @ \/ ~raised]],
                 last |-> [op |-> IF raised THEN "raise" ELSE "exit",
                           flag |-> legacy_contexts.stack[n].entered_with]]
    /\ LegacyFrame

deprecate_legacy_api_exits == deprecate_legacy_api_leave(FALSE)

deprecate_legacy_api_raises == deprecate_legacy_api_leave(TRUE)

\* generate is called with prompt_token_ids: deprecate_kwargs reads the
\* flag and warns if it is set
generate_deprecated ==
    /\ legacy_contexts' =
          [legacy_contexts EXCEPT
              !.last = [op |-> IF DEPRECATE_LEGACY THEN "generate, warning"
                               ELSE "generate",
                        flag |-> DEPRECATE_LEGACY]]
    /\ UNCHANGED DEPRECATE_LEGACY
    /\ LegacyFrame

NextLegacy ==
    \/ deprecate_legacy_api_enter
    \/ deprecate_legacy_api_exits
    \/ deprecate_legacy_api_raises
    \/ generate_deprecated

InitLegacy == Init /\ runner_type = "generate"

LegacySpec == InitLegacy /\ [][NextLegacy]_vars

----------------------------------------------------------------------------
(* Properties *)

NumRequests == NumPrompts(call.prompts)

ReturnedNormally == pc = "done" /\ result.kind = "return"

\* the request ids this call passed to add_request, in submission order
SubmittedIds == [k \in 1..Len(added) |-> added[k].request_id]

IdsOf(outs) == {outs[k].request_id : k \in 1..Len(outs)}

ParamsLengthMismatch ==
    call.params.seq /\ Len(call.params.items) # NumRequests

LoRALengthMismatch ==
    call.lora_request.kind = "seq" /\ Len(call.lora_request.items) # NumRequests

PriorityLengthMismatch ==
    call.priority.given /\ Len(call.priority.items) # NumRequests

\* the call got as far as _validate_and_add_requests
ReachedValidation == pc # "idle" /\ EntryError(call, runner_type) = None

\* the call raised before anything reached the engine or the counter
FailedWithoutEffect ==
    /\ pc = "done"
    /\ result.kind = "raise"
    /\ added = <<>>
    /\ request_counter = start_counter
    /\ engine = start_engine

\* C1: a call that returns, returns exactly one output per submitted prompt,
\* and the i-th output carries the identifier starting_id + i (i from 0).
C1_OutputsMatchBatch ==
    ReturnedNormally =>
        /\ Len(result.value) = NumRequests
        /\ \A k \in 1..Len(result.value) :
              result.value[k].request_id = Str(start_counter + k - 1)

\* The statement of C1 for a call entered while the engine held no
\* unfinished request.
CollationOnDrainedEngine ==
    (ReturnedNormally /\ start_engine = {}) =>
        /\ Len(result.value) = NumRequests
        /\ \A k \in 1..Len(result.value) :
              result.value[k].request_id = Str(start_counter + k - 1)

\* C2: the counter hands out strictly increasing values, never reused or
\* reset (the values handed out so far are 0, 1, ..., in this order, all
\* below the counter); the k-th request submitted by a call got the k-th
\* value handed out since the call began, and keeps it while the call lasts.
C2_IdentifiersUniqueAndFixed ==
    /\ [](/\ Len(issued) = request_counter
          /\ \A k \in 1..Len(issued) : issued[k] = k - 1
          /\ Len(added) = request_counter - start_counter
          /\ \A k \in 1..Len(added) :
                added[k].request_id = Str(issued[start_counter + k]))
    /\ [][/\ request_counter' >= request_counter
          /\ SubSeq(issued', 1, Len(issued)) = issued
          /\ pc' # "idle" =>
                SubSeq(SubmittedIds', 1, Len(added)) = SubmittedIds]_vars

W2_SecondCallSubmits ==
    /\ pc = "run"
    /\ start_counter >= 2
    /\ Len(added) >= 2

\* C3: the drain loop returns only when the engine has no unfinished request;
\* every update that a tick marked finished is in the returned list exactly
\* once, and the list holds nothing else: no update with finished = FALSE.
C3_OnlyFinishedRetained ==
    ReturnedNormally =>
        /\ ~has_unfinished_requests(engine)
        /\ \A k \in 1..Len(result.value) :
              /\ result.value[k].finished
              /\ result.value[k] \in finished_log
        /\ \A u \in finished_log :
              Cardinality({k \in 1..Len(result.value) :
                              result.value[k] = u}) = 1

W3_ReturnedOutOfOrderCompletion ==
    /\ ReturnedNormally
    /\ Len(outputs) >= 2
    /\ outputs # result.value

\* C4: with an engine that keeps finishing requests, a call that has entered
\* the drain loop eventually ends: it returns with no unfinished request
\* left in the engine (or a tick has failed).
C4_DrainTerminates ==
    (pc = "run") ~>
        (pc = "done" /\ (step_failed \/ (result.kind = "return" /\ engine = {})))

W4_DrainedAfterLeftover ==
    /\ ReturnedNormally
    /\ engine = {}
    /\ start_engine # {}
    /\ Len(result.value) > Len(added)

\* C5: a params sequence whose length differs from the number of prompts
\* makes the call raise the params shape error before add_request is called
\* for any prompt and with the counter unchanged.
C5_ParamsLengthChecked ==
    (ReachedValidation /\ ParamsLengthMismatch) =>
        /\ FailedWithoutEffect
        /\ result.exc = "ValueError: prompts and params"

W5_ParamsMismatchRaised ==
    /\ pc = "done"
    /\ ParamsLengthMismatch
    /\ result.exc = "ValueError: prompts and params"
    /\ start_counter > 0

\* C6: a lora_request sequence whose length differs from the number of
\* prompts makes the call raise a shape error before any request reaches the
\* engine: add_request is not called and no identifier is consumed.
C6_LoRALengthChecked ==
    (ReachedValidation /\ LoRALengthMismatch) =>
        /\ FailedWithoutEffect
        /\ result.exc \in {"ValueError: prompts and params",
                           "ValueError: prompts and lora_request"}

\* 2 handles for 3 prompts
W6_TwoHandlesThreePrompts ==
    /\ pc = "done"
    /\ NumRequests = 3
    /\ call.lora_request.kind = "seq"
    /\ Len(call.lora_request.items) = 2
    /\ result.exc = "ValueError: prompts and lora_request"

\* C7: a priority list whose length differs from the number of prompts makes
\* the call raise a shape error before any request is submitted, with no
\* identifier consumed and no request left in the engine.
C7_PriorityLengthChecked ==
    PriorityLengthMismatch =>
        /\ added = <<>>
        /\ request_counter = start_counter
        /\ engine = start_engine
        /\ pc = "done" => result.kind = "raise"

\* C8: the list a call returns holds outputs only of requests that this call
\* submitted, and its drain loop saw no finished request of another call.
C8_OnlyOwnRequests ==
    ReturnedNormally =>
        /\ IdsOf(result.value) \subseteq IdsOf(added)
        /\ {u.request_id : u \in finished_log} \subseteq IdsOf(added)

\* C9: once a tick has raised, the call is over with that error as its
\* result and no output list; the failed call ticks no more and collects
\* nothing more.
C9_TickFailurePropagates ==
    /\ [](step_failed =>
            /\ pc = "done"
            /\ result = Raised("EngineError: step"))
    /\ [][(step_failed /\ step_failed') =>
            UNCHANGED <<engine, outputs, finished_log, result>>]_vars

W9_TickFailedAfterOutputs ==
    /\ step_failed
    /\ pc = "done"
    /\ Len(outputs) >= 1
    /\ result.value = <<>>

\* C10: every request of a call carries the call's prompt-adapter and
\* steering-vector handles, and the call's LoRA handle when that is a single
\* handle; once the submission loop is through, that is one request per
\* prompt.
C10_SingleHandleBroadcast ==
    /\ \A k \in 1..Len(added) :
          /\ call.lora_request.kind = "single" =>
                added[k].lora_request = call.lora_request.items[1]
          /\ call.lora_request.kind = "None" => added[k].lora_request = None
          /\ added[k].prompt_adapter_request = call.prompt_adapter_request
          /\ added[k].steer_vector_request = call.steer_vector_request
    /\ pc = "run" => Len(added) = NumRequests

W10_ThreeRequestsOneHandle ==
    /\ pc = "run"
    /\ Len(added) = 3
    /\ call.lora_request.kind = "single"
    /\ call.prompt_adapter_request # None
    /\ call.steer_vector_request # None
    /\ \A k \in 1..3 : added[k].lora_request = "lora"

\* C11: a generate call without sampling parameters submits every request
\* with the defaults resolved from the model's configuration (the value
\* cached in default_sampling_params), the same for all its requests.
C11_DefaultsForEveryRequest ==
    (call.kind = "generate" /\ call.params_is_none /\ pc \in {"add", "run"}) =>
        /\ default_sampling_params \in DiffSamplingParams
        /\ \A k \in 1..Len(added) :
              /\ added[k].params.cls = "SamplingParams"
              /\ added[k].params.tag = 0
              /\ added[k].params.overrides = default_sampling_params
              /\ added[k].params.guided_decoding =
                     IF call.guided_options = None THEN None
                     ELSE "GuidedDecodingParams of options"
              /\ added[k].params = added[1].params

\* 3 prompts, no parameters, a model that configures defaults
W11_ThreePromptsConfiguredDefaults ==
    /\ pc = "run"
    /\ call.kind = "generate"
    /\ call.params_is_none
    /\ Len(added) = 3
    /\ default_sampling_params = "{temperature}"

\* C12: every request submitted with SamplingParams has output_kind
\* FINAL_ONLY, for a broadcast value and for a per-prompt sequence alike; a
\* request with PoolingParams is submitted with the PoolingParams as given.
C12_FinalOnlyForced ==
    \A k \in 1..Len(added) :
        IF added[k].params.cls = "SamplingParams"
        THEN added[k].params.output_kind = "FINAL_ONLY"
        ELSE added[k].params = PoolingParams(added[k].params.tag)

W12_SequenceOfSamplingParams ==
    /\ pc = "run"
    /\ call.kind = "generate"
    /\ call.params.seq
    /\ Len(added) >= 2
    /\ added[2].params.tag = 2

\* the caller gave guided options and SamplingParams that carry
\* guided_decoding
GuidedConflictSupplied ==
    /\ call.kind = "generate"
    /\ call.guided_options_request # None
    /\ \E k \in 1..Len(call.supplied.items) :
          call.supplied.items[k].guided_decoding =
              "GuidedDecodingParams of caller"

\* C13: a generate call given both guided options and sampling parameters
\* that carry guided_decoding raises with nothing submitted and no
\* identifier consumed; the error is the conflict error unless a check made
\* before it (runner type, number of guided options, lengths) fails first.
C13_GuidedConflictRaises ==
    (pc # "idle" /\ GuidedConflictSupplied) =>
        /\ FailedWithoutEffect
        /\ (/\ RunnerTypeSupported("generate", runner_type)
            /\ call.guided_options_request # "dict of 2"
            /\ ~ParamsLengthMismatch)
           => result.exc = "ValueError: guided_options_request and guided_decoding"

\* the conflict is on the last of several SamplingParams
W13_ConflictOnLastOfSequence ==
    /\ pc = "done"
    /\ GuidedConflictSupplied
    /\ call.params.seq
    /\ Len(call.params.items) >= 2
    /\ call.params.items[1].guided_decoding = "GuidedDecodingParams of options"
    /\ result.exc = "ValueError: guided_options_request and guided_decoding"
    /\ start_counter > 0

\* the operation of the call does not run on the model's runner type
UnsupportedOperation ==
    \/ call.kind = "generate" /\ runner_type \notin {"generate", "transcription"}
    \/ call.kind = "encode" /\ runner_type # "pooling"

\* C14: generate on a model that is neither a generate nor a transcription
\* model, and encode on a model that is not a pooling model, raise the
\* unsupported-operation error with no prompt converted, no request
\* submitted, no identifier consumed and no tick of the engine.
C14_UnsupportedOperationRaises ==
    (pc # "idle" /\ UnsupportedOperation) =>
        /\ FailedWithoutEffect
        /\ result.exc = "ValueError: runner type"
        /\ call.prompt_type = "PromptType"
        /\ finished_log = {}
        /\ ~step_failed

W14_EncodeOnTranscriptionModel ==
    /\ pc = "done"
    /\ call.kind = "encode"
    /\ runner_type = "transcription"
    /\ result.exc = "ValueError: runner type"
    /\ start_counter > 0

\* _convert_v1_inputs was called with the legacy arguments of the call
ConvertCalled ==
    \/ call.kind = "_convert_v1_inputs"
    \/ /\ call.kind \in {"generate", "encode"}
       /\ call.prompt_token_ids.form # "None"
       /\ ~UnsupportedOperation

\* C15: _convert_v1_inputs raises when prompts and prompt_token_ids are both
\* None, and when both are given and their lengths (len of the two
\* arguments) differ; the call ends there, with nothing submitted.
C15_LegacyArgumentsChecked ==
    (pc # "idle" /\ ConvertCalled) =>
        /\ (call.v1_prompts.form = "None" /\ call.prompt_token_ids.form = "None")
           => /\ FailedWithoutEffect
              /\ result.exc = "ValueError: either prompts or prompt_token_ids"
        /\ (/\ call.v1_prompts.form # "None"
            /\ call.prompt_token_ids.form # "None"
            /\ call.v1_prompts.len # call.prompt_token_ids.len)
           => /\ FailedWithoutEffect
              /\ result.exc =
                     "ValueError: lengths of prompts and prompt_token_ids"

\* generate with 2 prompts and 3 lists of token ids, after earlier calls
W15_TwoPromptsThreeTokenLists ==
    /\ pc = "done"
    /\ call.kind = "generate"
    /\ call.v1_prompts = [form |-> "list", len |-> 2]
    /\ call.prompt_token_ids = [form |-> "list", len |-> 3]
    /\ result.exc = "ValueError: lengths of prompts and prompt_token_ids"
    /\ start_counter > 0

\* a beam search is in progress or has just ended
InBeamSearch == call.kind = "beam_search" /\ bs.beam_width > 0

\* C16: after the pruning of every step, every instance of a beam search
\* has at most beam_width active beams
C16_ActiveBeamsWithinWidth ==
    InBeamSearch =>
        \A n \in 1..Len(bs.instances) :
            Len(bs.instances[n].beams) <= bs.beam_width

\* a step of width 2 made four active candidates of one beam and the
\* pruning has cut them to two
W16_FourCandidatesCutToTwo ==
    /\ InBeamSearch
    /\ pc = "beam_step"
    /\ bs.step = 1
    /\ bs.beam_width = 2
    /\ bs.ignore_eos
    /\ Len(bs.instances[1].beams) = 2
    /\ Len(bs.instances[1].beams[1].logprobs[1]) = 4

\* the iterations an instance has been through: the completed ones, and
\* the current one once the instance has been pruned in it
StepsOf(n) ==
    IF pc = "beam_expand" /\ n < bs.inst THEN bs.step + 1 ELSE bs.step

IsPrefix(p, t) == Len(p) <= Len(t) /\ SubSeq(t, 1, Len(p)) = p

\* C17: a beam that is active after step k holds len(prompt_tokens) + k
\* tokens, the first of which are the prompt tokens of its instance
C17_PromptPlusOneTokenPerStep ==
    InBeamSearch =>
        \A n \in 1..Len(bs.instances) :
            \A b \in 1..Len(bs.instances[n].beams) :
                LET instance == bs.instances[n]
                    beam == instance.beams[b]
                IN /\ Len(beam.tokens) =
                          Len(instance.prompt_tokens) + StepsOf(n)
                   /\ IsPrefix(instance.prompt_tokens, beam.tokens)

\* after two steps on two prompts, the second instance (a prompt of two
\* tokens) has an active beam
W17_SecondInstanceAfterTwoSteps ==
    /\ InBeamSearch
    /\ pc = "beam_step"
    /\ bs.step = 2
    /\ Len(bs.instances) = 2
    /\ Len(bs.instances[2].prompt_tokens) = 2
    /\ Len(bs.instances[2].beams) > 0
    /\ Len(bs.instances[2].beams[1].tokens) = 4

\* the log-probability the dict d gives to the token t
LogprobOf(d, t) == d[CHOOSE j \in 1..Len(d) : d[j].token_id = t].logprob

\* the elements a step has appended to the list old, giving new
Appended(old, new) == SubSeq(new, Len(old) + 1, Len(new))

\* the inner loop body runs for one beam
ExpandsOneBeam == pc = "beam_expand" /\ bs'.i = bs.i + 1

\* the candidates that the body makes of that beam, active and completed
CandidatesMade ==
    Appended(bs.new_beams, bs'.new_beams)
        \o Appended(bs.instances[bs.inst].completed,
                    bs'.instances[bs.inst].completed)

\* C18: every candidate made in a step has the cumulative log-probability
\* of its parent plus the log-probability of the token appended, which,
\* log-probabilities being at most 0, is not greater than the parent's
C18_CumulativeLogprobAdds ==
    [][ExpandsOneBeam =>
            LET parent == bs.all_beams[bs.i + 1]
            IN \A k \in 1..Len(CandidatesMade) :
                  LET c == CandidatesMade[k]
                      token == c.tokens[Len(c.tokens)]
                      dict == c.logprobs[Len(c.logprobs)]
                  IN /\ c.cum_logprob =
                            parent.cum_logprob + LogprobOf(dict, token)
                     /\ c.cum_logprob <= parent.cum_logprob]_vars

\* in the second step, a beam that had accumulated a negative value got a
\* candidate with a smaller one
W18_SecondStepCandidate ==
    /\ InBeamSearch
    /\ pc = "beam_expand"
    /\ bs.step = 1
    /\ bs.i = 1
    /\ bs.all_beams[1].cum_logprob < 0
    /\ Len(bs.new_beams) > 0
    /\ bs.new_beams[1].cum_logprob < bs.all_beams[1].cum_logprob

LastToken(beam) == beam.tokens[Len(beam.tokens)]

EosFree(tokens) == \A k \in 1..Len(tokens) : tokens[k] # EosTokenId

\* the tokens of a beam after the prompt tokens of its instance
Generated(instance, beam) ==
    SubSeq(beam.tokens, Len(instance.prompt_tokens) + 1, Len(beam.tokens))

\* the tokens of a beam before the last one
ParentTokens(beam) == SubSeq(beam.tokens, 1, Len(beam.tokens) - 1)

InBeamLoop == InBeamSearch /\ pc \in {"beam_step", "beam_expand"}

\* where the end-of-sequence token can be while the loop runs: with
\* ignore_eos false, in no active beam, in no candidate for the active set
\* and in no prompt submitted (the prompts of the search hold none), and
\* only at the end of a completed beam; with ignore_eos true nothing is
\* completed before the loop ends
EosKeptApart ==
    InBeamLoop =>
        /\ \A n \in 1..Len(bs.instances) :
              LET instance == bs.instances[n]
              IN IF bs.ignore_eos
                 THEN instance.completed = <<>>
                 ELSE /\ \A b \in 1..Len(instance.beams) :
                            EosFree(Generated(instance, instance.beams[b]))
                      /\ \A b \in 1..Len(instance.completed) :
                            /\ LastToken(instance.completed[b]) = EosTokenId
                            /\ EosFree(ParentTokens(instance.completed[b]))
        /\ ~bs.ignore_eos =>
              /\ \A b \in 1..Len(bs.new_beams) : EosFree(bs.new_beams[b].tokens)
              /\ \A k \in 1..Len(added) : EosFree(added[k].prompt)

\* where the body of the inner loop puts the candidates of one beam: one
\* candidate per entry of the dict; into the completed list those ending
\* with the end-of-sequence token when ignore_eos is false, and into the
\* candidates for the active set all the others
EosCandidatePlaced ==
    ExpandsOneBeam =>
        LET parent == bs.all_beams[bs.i + 1]
            made_active == Appended(bs.new_beams, bs'.new_beams)
            made_completed ==
                Appended(bs.instances[bs.inst].completed,
                         bs'.instances[bs.inst].completed)
        IN /\ \A k \in 1..Len(made_completed) :
                 /\ ~bs.ignore_eos
                 /\ LastToken(made_completed[k]) = EosTokenId
           /\ \A k \in 1..Len(made_active) :
                 bs.ignore_eos \/ LastToken(made_active[k]) # EosTokenId
           /\ \A k \in 1..Len(CandidatesMade) :
                 LET dict == CandidatesMade[k].logprobs[Len(parent.logprobs) + 1]
                 IN \A j \in 1..Len(dict) :
                       \E m \in 1..Len(CandidatesMade) :
                           CandidatesMade[m].tokens =
                               Append(parent.tokens, dict[j].token_id)

\* C19: with ignore_eos false a candidate ending with the end-of-sequence
\* token goes to the completed list of its instance in that step and is
\* never active, submitted or extended; with ignore_eos true it is a
\* candidate for the active set like any other
C19_EosCompletes == []EosKeptApart /\ [][EosCandidatePlaced]_vars

\* with ignore_eos false, a candidate completed in the first step is in the
\* completed list while the second step has left other beams active
W19_CompletedInFirstStep ==
    /\ InBeamSearch
    /\ pc = "beam_step"
    /\ bs.step = 2
    /\ ~bs.ignore_eos
    /\ Len(bs.instances[1].completed) > 0
    /\ Len(bs.instances[1].completed[1].tokens) =
           Len(bs.instances[1].prompt_tokens) + 1
    /\ Len(bs.instances[1].beams) > 0

\* no beam of the list extends (or is) the beam with the tokens t
NoneExtends(beams, t) ==
    \A b \in 1..Len(beams) : ~IsPrefix(t, beams[b].tokens)

\* the instance n has been pruned since its beams were last expanded
Pruned(n) == pc \in {"beam_step", "done"} \/ n < bs.inst

\* a beam whose result carried no log-probabilities (bs.dropped records it
\* with its instance) is, with all its extensions, absent from the
\* candidates of its instance, from its completed list, from its active
\* list once pruned, and from what beam_search returns
DroppedBeamsAbsent ==
    InBeamSearch =>
        \A d \in bs.dropped :
            /\ d.inst = bs.inst => NoneExtends(bs.new_beams, d.tokens)
            /\ pc # "done" =>
                  NoneExtends(bs.instances[d.inst].completed, d.tokens)
            /\ Pruned(d.inst) =>
                  NoneExtends(bs.instances[d.inst].beams, d.tokens)
            /\ ReturnedNormally =>
                  NoneExtends(result.value[d.inst], d.tokens)

\* the body of the inner loop for a beam without log-probabilities adds
\* nothing to the candidates or to the completed list
DroppedInThatStep ==
    ExpandsOneBeam /\ bs'.dropped # bs.dropped =>
        /\ bs'.new_beams = bs.new_beams
        /\ bs'.instances = bs.instances

\* C20: an active beam whose result carries no log-probabilities is dropped
\* in that step: neither it nor an extension of it is added to the active
\* or the completed list of its instance, or is in the final output
C20_NoLogprobsDropsBeam ==
    []DroppedBeamsAbsent /\ [][DroppedInThatStep]_vars

\* beam_search returns sequences of an instance one beam of which was
\* dropped after the first step
W20_DroppedAfterFirstStep ==
    /\ InBeamSearch
    /\ ReturnedNormally
    /\ Len(result.value[1]) > 0
    /\ \E d \in bs.dropped :
          d.inst = 1 /\ Len(d.tokens) > Len(bs.instances[1].prompt_tokens)

\* beam_search has returned its list of outputs
BeamSearchReturned == InBeamSearch /\ ReturnedNormally

\* the list out is the best `width` elements (all, if there are fewer) of
\* the list all, in descending order of the sort key
IsTopOf(out, all, width, lp) ==
    /\ Len(out) = Min(width, Len(all))
    /\ \A k \in 1..Len(out) : \E m \in 1..Len(all) : all[m] = out[k]
    /\ \A k, m \in 1..Len(out) : k # m => out[k] # out[m]
    /\ \A k \in 1..Len(out) - 1 : ~KeyGreater(out[k + 1], out[k], lp)
    /\ \A m \in 1..Len(all) :
          (\A k \in 1..Len(out) : out[k] # all[m]) =>
              \A k \in 1..Len(out) : ~KeyGreater(all[m], out[k], lp)

\* C21: beam_search returns one output per prompt, in the order of the
\* prompts, holding the best beam_width, in descending order of the sort
\* key, of the instance's completed beams and the beams active at the end
\* (instance.completed holds both once the loop is over)
C21_BestOfCompletedAndActive ==
    BeamSearchReturned =>
        /\ Len(result.value) = Len(call.prompts.items)
        /\ \A n \in 1..Len(result.value) :
              /\ bs.instances[n].prompt_tokens = call.prompts.items[n]
              /\ \A b \in 1..Len(bs.instances[n].beams) :
                    \E m \in 1..Len(bs.instances[n].completed) :
                        bs.instances[n].completed[m] = bs.instances[n].beams[b]
              /\ \A m \in 1..Len(bs.instances[n].completed) :
                    IsPrefix(call.prompts.items[n],
                             bs.instances[n].completed[m].tokens)
              /\ IsTopOf(result.value[n], bs.instances[n].completed,
                         bs.beam_width, bs.length_penalty)

\* two prompts; the first instance ends with a completed beam and an active
\* one, of which the completed one, found first, is not the better
W21_TwoPromptsSelection ==
    /\ BeamSearchReturned
    /\ Len(result.value) = 2
    /\ bs.beam_width = 1
    /\ Len(bs.instances[1].completed) = 2
    /\ Len(result.value[2]) = 1
    /\ result.value[1][1] = bs.instances[1].completed[2]

\* generate has taken at most max_tokens batches
SubmissionsBounded == InBeamSearch => bs.submissions <= bs.max_tokens

\* every batch generate takes holds a request
NoEmptyBatch == bs'.submissions > bs.submissions => Len(added') > Len(added)

\* with no active beam left, the next thing beam_search does is return
StopsWhenExhausted ==
    InBeamSearch /\ pc = "beam_step" /\ FlattenBeams(bs.instances) = <<>> =>
        pc' = "done" /\ result'.kind = "return" /\ added' = added

\* the requests of the remaining iterations fit under MaxBeamRequests
RequestsFit ==
    request_counter
        + (bs.max_tokens - bs.step) * Len(bs.instances) * bs.beam_width
            <= MaxBeamRequests

\* C22: beam_search ends after at most max_tokens batches given to
\* generate, none of them empty, and at once when no instance has an
\* active beam
C22_EndsWithinMaxTokens ==
    /\ []SubmissionsBounded
    /\ [][NoEmptyBatch /\ StopsWhenExhausted]_vars
    /\ (InBeamSearch /\ pc = "beam_step" /\ RequestsFit) ~> (pc = "done")

\* after one of the three iterations allowed, no beam is left and
\* beam_search has returned
W22_ReturnedAfterOneBatch ==
    /\ BeamSearchReturned
    /\ bs.max_tokens = 3
    /\ bs.submissions = 1
    /\ FlattenBeams(bs.instances) = <<>>

\* the first entry of the dict d with the highest log-probability
ArgMax(d) ==
    CHOOSE j \in 1..Len(d) :
        /\ \A m \in 1..Len(d) : d[m].logprob <= d[j].logprob
        /\ \A m \in 1..j - 1 : d[m].logprob < d[j].logprob

\* every token of the beam after the prompt is the one greedy decoding
\* appends: the most probable one of the distribution of its step
IsGreedy(instance, beam) ==
    \A k \in 1..Len(beam.logprobs) :
        beam.tokens[Len(instance.prompt_tokens) + k] =
            beam.logprobs[k][ArgMax(beam.logprobs[k])].token_id

\* C23 as stated: with beam_width 1 the best sequence beam_search returns
\* for a prompt is the one greedy decoding makes
C23_WidthOneIsGreedy ==
    BeamSearchReturned /\ bs.beam_width = 1 =>
        \A n \in 1..Len(result.value) :
            Len(result.value[n]) > 0 =>
                IsGreedy(bs.instances[n], result.value[n][1])

\* no distribution met in the search of the instance n offered the
\* end-of-sequence token
EosNeverOffered(n) ==
    \A m \in 1..Len(bs.instances[n].completed) :
        \A k \in 1..Len(bs.instances[n].completed[m].logprobs) :
            LET d == bs.instances[n].completed[m].logprobs[k]
            IN \A j \in 1..Len(d) : d[j].token_id # EosTokenId

\* C23 amended: with beam_width 1 and log-probabilities in every result,
\* beam_search returns for a prompt the one sequence greedy decoding makes
\* in max_tokens steps, if the end-of-sequence token is never offered, or
\* if ignore_eos is true and length_penalty is 0
C23_WidthOneIsGreedyWithoutEos ==
    BeamSearchReturned /\ bs.beam_width = 1 /\ bs.dropped = {} =>
        \A n \in 1..Len(result.value) :
            (bs.ignore_eos /\ bs.length_penalty = 0) \/ EosNeverOffered(n) =>
                /\ Len(result.value[n]) = 1
                /\ IsGreedy(bs.instances[n], result.value[n][1])
                /\ Len(result.value[n][1].tokens) =
                       Len(bs.instances[n].prompt_tokens) + bs.max_tokens

\* a search of width 1 has returned after two steps in each of which two
\* tokens were offered
W23_TwoStepsOfTwoCandidates ==
    /\ BeamSearchReturned
    /\ bs.beam_width = 1
    /\ bs.dropped = {}
    /\ bs.max_tokens = 2
    /\ EosNeverOffered(1)
    /\ Len(result.value[1]) = 1
    /\ \A k \in 1..2 : Len(result.value[1][1].logprobs[k]) = 2

\* scenario B: one prompt, beam_width 2, max_tokens 3, log-probabilities in
\* every result and the end-of-sequence token in none
ScenarioB ==
    /\ BeamSearchReturned
    /\ Len(call.prompts.items) = 1
    /\ bs.beam_width = 2
    /\ bs.max_tokens = 3
    /\ bs.dropped = {}
    /\ EosNeverOffered(1)

CompletedEarly(instance, beams, m) ==
    /\ Len(beams[m].tokens) = Len(instance.prompt_tokens) + 1
    /\ LastToken(beams[m]) = EosTokenId

\* scenario C: one prompt, beam_width 2, two steps or more, ignore_eos
\* false, log-probabilities in every result, and the first step offers the
\* end-of-sequence token and another one
ScenarioC ==
    /\ BeamSearchReturned
    /\ Len(call.prompts.items) = 1
    /\ bs.beam_width = 2
    /\ bs.max_tokens >= 2
    /\ ~bs.ignore_eos
    /\ bs.dropped = {}
    /\ \E m \in 1..Len(bs.instances[1].completed) :
          /\ CompletedEarly(bs.instances[1], bs.instances[1].completed, m)
          /\ Len(bs.instances[1].completed[m].logprobs[1]) >= 2

\* C25 as stated: in scenario C the output has exactly 2 sequences, one of
\* them the sequence completed in step 1 (here with length_penalty 0, the
\* sort key being the cumulative log-probability)
C25_EarlyCompletedIsReturned ==
    ScenarioC /\ bs.length_penalty = 0 =>
        /\ Len(result.value[1]) = 2
        /\ \E k \in 1..Len(result.value[1]) :
              CompletedEarly(bs.instances[1], result.value[1], k)

\* C25 amended: in scenario C the output has exactly 2 sequences; the
\* sequence completed in step 1 is one of them unless both have a sort key
\* at least as high as its own
C25_TwoSequencesEarlyOneIfBest ==
    ScenarioC =>
        /\ Len(result.value[1]) = 2
        /\ \A m \in 1..Len(bs.instances[1].completed) :
              CompletedEarly(bs.instances[1], bs.instances[1].completed, m) =>
                  \/ \E k \in 1..2 :
                        result.value[1][k] = bs.instances[1].completed[m]
                  \/ \A k \in 1..2 :
                        ~KeyGreater(bs.instances[1].completed[m],
                                    result.value[1][k], bs.length_penalty)

\* scenario C over two steps, returning the sequence completed in step 1
\* and a sequence of two more tokens
W25_EarlyCompletedAndLongerOne ==
    /\ ScenarioC
    /\ bs.max_tokens = 2
    /\ bs.submissions = 2
    /\ \E k \in 1..2 : CompletedEarly(bs.instances[1], result.value[1], k)
    /\ \E k \in 1..2 :
          Len(result.value[1][k].tokens) =
              Len(bs.instances[1].prompt_tokens) + 2

\* beam_search was called with a list of lora handles that is not as long
\* as the list of prompts
BeamLoRALengthMismatch ==
    /\ call.kind = "beam_search"
    /\ call.lora_request.kind = "seq"
    /\ Len(call.lora_request.items) # Len(call.prompts.items)

\* C26: such a call raises at once: no instance is made, no request is
\* submitted to the engine and no identifier is taken
C26_BeamLoRAMismatchFailsFast ==
    BeamLoRALengthMismatch =>
        /\ pc = "done"
        /\ result = Raised("ValueError: lora request list and prompts")
        /\ bs = NoBeamSearch
        /\ added = <<>>
        /\ engine = start_engine
        /\ request_counter = start_counter

\* the call comes after a search that has taken identifiers, with three
\* handles for two prompts
W26_ThreeHandlesTwoPrompts ==
    /\ BeamLoRALengthMismatch
    /\ Len(call.lora_request.items) = 3
    /\ Len(call.prompts.items) = 2
    /\ request_counter > 0

\* a call of generate, encode or score is past its checks
InSubmittingCall ==
    /\ call.kind \in {"generate", "encode", "score"}
    /\ pc \in {"add", "run", "done"}

\* the i-th add_request of the call (i counted from 1) has the identifier
\* that follows the i - 1 before it and the arguments of the i-th prompt
SubmittedInInputOrder ==
    InSubmittingCall =>
        /\ Len(added) <= Len(call.prompts.items)
        /\ \A i \in 1..Len(added) :
              /\ IntOf(added[i].request_id) = start_counter + i - 1
              /\ added[i].prompt = call.prompts.items[i]
              /\ added[i].params =
                     call.params.items[IF call.params.seq THEN i ELSE 1]
              /\ call.lora_request.kind = "seq" =>
                     added[i].lora_request = call.lora_request.items[i]
              /\ call.lora_request.kind = "single" =>
                     added[i].lora_request = call.lora_request.items[1]
              /\ call.lora_request.kind = "None" =>
                     added[i].lora_request = None
              /\ call.priority.given /\ i <= Len(call.priority.items) =>
                     added[i].priority = call.priority.items[i]
              /\ ~call.priority.given => added[i].priority = 0

\* a submission the engine accepts adds its one request to the unfinished
\* set, after the submissions before it
GrowsByOne ==
    pc = "add" /\ engine' # engine =>
        /\ Len(added') = Len(added) + 1
        /\ engine' = engine \cup {added'[Len(added')].request_id}
        /\ Cardinality(engine') = Cardinality(engine) + 1

\* C27: the requests of a call are submitted in input order, the i-th
\* prompt with the i-th identifier from the counter's value at the start,
\* its params, its lora handle and its priority (0 without a priority
\* list), and the unfinished set grows by one per submission
C27_SubmittedInInputOrder == []SubmittedInInputOrder /\ [][GrowsByOne]_vars

\* three prompts submitted with per-prompt params, handles and priorities
\* by a call that did not start at identifier 0
W27_ThreePromptsPerPromptArguments ==
    /\ InSubmittingCall
    /\ pc = "run"
    /\ start_counter > 0
    /\ Len(added) = 3
    /\ call.params.seq
    /\ call.lora_request.kind = "seq"
    /\ call.priority.given
    /\ Cardinality(engine) = Cardinality(start_engine) + 3

\* the ranges of the instances follow one another from 0 to the number of
\* beams in the batch, each as long as the active list of its instance
RangesPartitionBatch ==
    /\ Len(bs.ranges) = Len(bs.instances)
    /\ bs.ranges[1][1] = 0
    /\ bs.ranges[Len(bs.ranges)][2] = Len(bs.all_beams)
    /\ \A n \in 1..Len(bs.ranges) :
          /\ bs.ranges[n][2] - bs.ranges[n][1] = Len(bs.instances[n].beams)
             \/ n < bs.inst
          /\ n > 1 => bs.ranges[n][1] = bs.ranges[n - 1][2]
          /\ \A k \in bs.ranges[n][1] + 1..bs.ranges[n][2] :
                IsPrefix(bs.instances[n].prompt_tokens, bs.all_beams[k].tokens)

\* the request that the last generate call submitted for the k-th beam of
\* the batch (k counted from 1)
RequestOfBeam(k) == added[Len(added) - Len(bs.all_beams) + k]

\* C28: in every step the ranges of the instances partition the batch in
\* instance order, the result at position i is the result of the request
\* made for the beam at position i, and the candidates of an instance come
\* from its own beams
C28_ResultsAlignedWithBeams ==
    InBeamSearch /\ pc = "beam_expand" =>
        /\ RangesPartitionBatch
        /\ Len(bs.output) = Len(bs.all_beams)
        /\ \A k \in 1..Len(bs.all_beams) :
              /\ RequestOfBeam(k).prompt = bs.all_beams[k].tokens
              /\ bs.output[k].request_id = RequestOfBeam(k).request_id
        /\ \A b \in 1..Len(bs.new_beams) :
              IsPrefix(bs.instances[bs.inst].prompt_tokens,
                       bs.new_beams[b].tokens)

\* the inner loop is over for an instance and its candidates are cut
PrunesInstance ==
    /\ InBeamSearch
    /\ pc = "beam_expand"
    /\ bs'.inst # bs.inst \/ bs'.step # bs.step

\* a beam of the instance got 2 * beam_width candidate tokens in this step
\* (all but the end-of-sequence one are among the candidates for the
\* active list)
GotFullResult ==
    \E b \in 1..Len(bs.new_beams) :
        Len(bs.new_beams[b].logprobs[Len(bs.new_beams[b].logprobs)])
            = 2 * bs.beam_width

\* C29: when a beam of an instance gets 2 * beam_width distinct candidate
\* tokens in a step, the instance has exactly beam_width active beams after
\* the end-of-sequence candidates are set apart and the others cut
C29_FullResultRefillsWidth ==
    [][PrunesInstance /\ GotFullResult =>
            Len(bs'.instances[bs.inst].beams) = bs.beam_width]_vars

\* with beam_width 2 and ignore_eos false the first step got four
\* candidates, one of them the end-of-sequence token, and two are active
W29_FourCandidatesOneEos ==
    /\ InBeamSearch
    /\ pc = "beam_step"
    /\ bs.step = 1
    /\ bs.beam_width = 2
    /\ ~bs.ignore_eos
    /\ Len(bs.instances[1].completed) = 1
    /\ Len(bs.instances[1].completed[1].logprobs[1]) = 4
    /\ Len(bs.instances[1].beams) = 2

\* every beam active after the pruning of an instance is one of the active
\* beams the step started with, extended by one token
ExtendsActiveBeam ==
    PrunesInstance =>
        \A b \in 1..Len(bs'.instances[bs.inst].beams) :
            \E a \in 1..Len(bs.instances[bs.inst].beams) :
                /\ Len(bs'.instances[bs.inst].beams[b].tokens) =
                       Len(bs.instances[bs.inst].beams[a].tokens) + 1
                /\ ParentTokens(bs'.instances[bs.inst].beams[b]) =
                       bs.instances[bs.inst].beams[a].tokens

\* a candidate the top-beam_width selection cut (bs.cut records it with its
\* instance) is, with all its extensions, absent from the active list of
\* its instance, from its later candidates, from its completed list and
\* from the sequences returned for it
CutBeamsAbsent ==
    InBeamSearch =>
        \A d \in bs.cut :
            /\ NoneExtends(bs.instances[d.inst].beams, d.tokens)
            /\ NoneExtends(bs.instances[d.inst].completed, d.tokens)
            /\ d.inst = bs.inst => NoneExtends(bs.new_beams, d.tokens)
            /\ ReturnedNormally =>
                  NoneExtends(result.value[d.inst], d.tokens)

\* C30: pruned candidates are never re-admitted: each beam active after a
\* step extends by one token a beam active after the step before, and a
\* candidate cut by the top-beam_width selection is in no later active
\* list, in no completed list and not in the final output
C30_PrunedNeverReadmitted ==
    []CutBeamsAbsent /\ [][ExtendsActiveBeam]_vars

\* a search of width 2 returned two sequences after two steps or more,
\* having cut a candidate in its first step
W30_ReturnedAfterCutting ==
    /\ BeamSearchReturned
    /\ bs.beam_width = 2
    /\ bs.step >= 2
    /\ Len(result.value[1]) = 2
    /\ \E d \in bs.cut : d.inst = 1 /\ Len(d.tokens) = 2

\* the instance n has no active beam while the loop runs (every instance
\* starts with one, so a step emptied its list)
Exhausted(n) == InBeamLoop /\ bs.instances[n].beams = <<>>

\* the requests a step adds to the engine
NewlyAdded == {added'[k] : k \in (Len(added) + 1)..Len(added')}

\* what a step of the search leaves of an exhausted instance: its lists as
\* they were while the loop runs, no request of a new batch with a prompt
\* that starts with its prompt tokens, an empty range in that batch
ExhaustedStays ==
    \A n \in 1..Len(bs.instances) :
        Exhausted(n) /\ call' = call =>
            /\ pc' \in {"beam_step", "beam_expand"} =>
                  /\ bs'.instances[n].beams = <<>>
                  /\ bs'.instances[n].completed = bs.instances[n].completed
            /\ \A a \in NewlyAdded :
                  ~IsPrefix(bs.instances[n].prompt_tokens, a.prompt)
            /\ pc = "beam_step" /\ pc' = "beam_expand" =>
                  bs'.ranges[n][1] = bs'.ranges[n][2]

\* C31: exhaustion of an instance is absorbing: once its active list is
\* empty it stays empty, the instance contributes no request to a later
\* batch and its completed list is not modified before the final
\* selection, while the other instances go on
C31_ExhaustionIsAbsorbing == [][ExhaustedStays]_vars

\* the only beam of the first instance was dropped in the first step, and
\* the second instance has been through two steps and is still active
W31_FirstExhaustedSecondGoesOn ==
    /\ InBeamSearch
    /\ pc = "beam_step"
    /\ bs.step = 2
    /\ Len(bs.instances) = 2
    /\ [inst |-> 1, tokens |-> bs.instances[1].prompt_tokens] \in bs.dropped
    /\ bs.instances[1].beams = <<>>
    /\ bs.instances[2].beams # <<>>

\* generate is called for a batch of the search
SubmitsBatch == InBeamSearch /\ pc = "beam_step" /\ pc' = "beam_expand"

\* the batch has one request per active beam, instance after instance and
\* beam after beam: the beam's tokens as the prompt, the beam's handle,
\* 2 * beam_width log-probabilities, one new token, the configured
\* temperature
OneRequestPerActiveBeam ==
    SubmitsBatch =>
        /\ Len(added') - Len(added) =
               Positions(bs.instances, Len(bs.instances))
        /\ \A n \in 1..Len(bs.instances) :
              \A b \in 1..Len(bs.instances[n].beams) :
                 LET beam == bs.instances[n].beams[b]
                     req == added'[Len(added)
                                     + Positions(bs.instances, n - 1) + b]
                 IN /\ req.prompt = beam.tokens
                    /\ req.lora_request = beam.lora_request
                    /\ req.params.logprobs = 2 * bs.beam_width
                    /\ req.params.max_tokens = 1
                    /\ req.params.temperature = "params.temperature"

\* the handle of a beam, active, candidate or completed, is the handle its
\* instance got for its prompt from the lora_request argument
HandleOfInstance ==
    InBeamSearch =>
        \A n \in 1..Len(bs.instances) :
            /\ bs.instances[n].lora_request = LoRAAt(call, n)
            /\ \A b \in 1..Len(bs.instances[n].beams) :
                  bs.instances[n].beams[b].lora_request =
                      bs.instances[n].lora_request
            /\ \A b \in 1..Len(bs.instances[n].completed) :
                  bs.instances[n].completed[b].lora_request =
                      bs.instances[n].lora_request
            /\ n = bs.inst =>
                  \A b \in 1..Len(bs.new_beams) :
                      bs.new_beams[b].lora_request =
                          bs.instances[n].lora_request

\* C32: every request of a step has as prompt the tokens of one active
\* beam, carries that beam's adapter handle (the handle of the beam's
\* instance throughout), asks for 2 * beam_width log-probabilities, one new
\* token and the configured temperature, and the batch has exactly one
\* request per active beam
C32_OneRequestPerActiveBeam ==
    []HandleOfInstance /\ [][OneRequestPerActiveBeam]_vars

\* the second batch of a search over two prompts with a lora handle, of
\* three beams
W32_SecondBatchOfThreeBeams ==
    /\ InBeamSearch
    /\ pc = "beam_expand"
    /\ bs.step = 1
    /\ bs.i = 0 /\ bs.inst = 1
    /\ Len(bs.instances) = 2
    /\ bs.instances[1].lora_request = "lora"
    /\ Len(bs.all_beams) = 3

\* beam_search was called with a lora_request of a form its signature
\* admits for its prompts: None, one handle, or a list of one handle per
\* prompt
BeamLoRAAdmitted == call.kind = "beam_search" /\ ~BeamLoRALengthMismatch

\* C33: for each such form _get_beam_search_lora_requests returns the
\* handle of each prompt (None for all, the one handle for all, the i-th
\* handle of the list for the i-th prompt), with which beam_search makes
\* its instances
C33_HandleForEachPrompt ==
    BeamLoRAAdmitted /\ pc # "idle" =>
        /\ result # Raised("TypeError: invalid lora_request type")
        /\ InBeamSearch
        /\ \A n \in 1..Len(call.prompts.items) :
              bs.instances[n].lora_request = LoRAAt(call, n)

\* the engine raised in add_request for the prompt after the idx-th
SubmissionFailed ==
    /\ call.kind \in {"generate", "encode", "score"}
    /\ pc = "done"
    /\ result = Raised("EngineError: add_request")

\* C34: submission is sequential and not rolled back: when the submission
\* of the j-th prompt fails, the identifiers of the prompts 1..j have been
\* taken from the counter, the prompts 1..j-1 are outstanding in the
\* engine, the caller gets the failure and the drain loop has not run
C34_FailedSubmissionNotRolledBack ==
    SubmissionFailed =>
        LET j == idx + 1
        IN /\ request_counter = start_counter + j
           /\ Len(added) = j
           /\ \A k \in 1..j :
                 issued[Len(issued) - j + k] = start_counter + k - 1
           /\ \A k \in 1..j : added[k].request_id = Str(start_counter + k - 1)
           /\ engine = start_engine
                  \cup {Str(start_counter + k - 1) : k \in 1..(j - 1)}
           /\ Cardinality(engine) = Cardinality(start_engine) + j - 1
           /\ outputs = <<>>
           /\ finished_log = {}

\* the engine refused the second of three prompts
W34_SecondOfThreeRefused ==
    /\ SubmissionFailed
    /\ idx = 1
    /\ NumPrompts(call.prompts) = 3

\* guided_decoding of an object, once set, stays as it is
GuidedDecodingPersists ==
    \A o \in 1..MaxObjects :
        sampling_params[o].guided_decoding # None =>
            sampling_params'[o].guided_decoding =
                sampling_params[o].guided_decoding

\* generate is entered with guided options and gets to the loop over its
\* parameters
EntersGuidedLoop ==
    /\ pc = "idle" /\ pc' # "idle"
    /\ call'.kind = "generate"
    /\ call'.guided_options # None
    /\ EntryError(call', runner_type) = None
    /\ ShapeError(call') = None

\* an object of the call was processed with guided options before: by an
\* earlier call, or as an earlier element of the same list
ProcessedBefore ==
    LET refs == RefsOf(call'.params)
    IN \/ \E k \in 1..Len(refs) :
             sampling_params[refs[k]].guided_decoding =
                 "GuidedDecodingParams of options"
       \/ \E j, k \in 1..Len(refs) : j < k /\ refs[j] = refs[k]

\* the call raises the conflict with nothing submitted
RaisesConflictBeforeSubmitting ==
    /\ pc' = "done"
    /\ result' = Raised("ValueError: guided_options_request and guided_decoding")
    /\ added' = <<>>
    /\ engine' = engine
    /\ request_counter' = request_counter

\* C35: guided options are written into the caller's SamplingParams object
\* and stay there: a later processing of the same object with guided
\* options, in a second call or as a second occurrence in the same list,
\* raises the conflict before any request of that call is submitted
C35_GuidedMutationPersists ==
    [][/\ GuidedDecodingPersists
       /\ EntersGuidedLoop /\ ProcessedBefore =>
              RaisesConflictBeforeSubmitting]_vars

\* a second call with guided options on an object that an earlier call,
\* which submitted its request, had processed
W35_SecondCallOnSameObject ==
    /\ pc = "done"
    /\ result = Raised("ValueError: guided_options_request and guided_decoding")
    /\ ~call.params.seq
    /\ call.params.items[1].output_kind = "FINAL_ONLY"
    /\ request_counter > 0

\* _convert_v1_inputs returned the prompts 1..n of its arguments in their
\* order: to its caller, or to generate or encode, which go on with them
YieldsPrompts(n) ==
    /\ result.exc \notin
          {"ValueError: either prompts or prompt_token_ids",
           "ValueError: lengths of prompts and prompt_token_ids"}
    /\ call.kind = "_convert_v1_inputs" =>
          result = Returned([i \in 1..n |-> i])
    /\ call.kind \in {"generate", "encode"} =>
          call.prompts = [single |-> FALSE, items |-> [i \in 1..n |-> i]]

\* C36: the legacy single-prompt form (one string, one flat list of token
\* ids) yields exactly one prompt whatever the number of characters and of
\* token ids; the legacy multi-prompt form with N strings and N lists of
\* token ids yields N prompts in input order
C36_LegacyFormsYieldPrompts ==
    (pc # "idle" /\ ConvertCalled) =>
        /\ (/\ call.v1_prompts.form = "str"
            /\ call.prompt_token_ids.form = "flat") => YieldsPrompts(1)
        /\ (/\ call.v1_prompts.form = "list"
            /\ call.prompt_token_ids.form = "list"
            /\ call.v1_prompts.len = call.prompt_token_ids.len)
           => YieldsPrompts(call.v1_prompts.len)

RECURSIVE SumOver(_, _)
SumOver(s, field) ==
    IF s = <<>> THEN 0
    ELSE SumOver(SubSeq(s, 1, Len(s) - 1), field) + s[Len(s)][field]

\* the two runs agree on everything but the bars and the token counters:
\* the requests submitted and their identifiers, the counter, the engine,
\* the outputs collected and what is returned
ProgressIsCosmetic ==
    progress.phase # "idle" =>
        LET with == progress.runs[1]
            without == progress.runs[2]
        IN /\ with.added = without.added
           /\ with.request_counter = without.request_counter
           /\ with.engine = without.engine
           /\ with.outputs = without.outputs
           /\ with.result = without.result

\* with use_tqdm the token counters count the generation-type outputs
\* only, and the bar is advanced by one for a pooling-type output (by the
\* number of its completions for a generation-type one)
CountersFollowOutputs ==
    progress.phase # "idle" =>
        LET with == progress.runs[1]
        IN /\ progress.kind = "encode" =>
                 /\ with.total_in_toks = 0
                 /\ with.total_out_toks = 0
                 /\ with.pbar_n = Len(with.outputs)
           /\ progress.kind = "generate" =>
                 /\ with.total_out_toks = SumOver(with.outputs, "out_toks")
                 /\ with.pbar_n = SumOver(with.outputs, "n")

\* C37: progress reporting is cosmetic: with it the call submits the same
\* requests with the same identifiers and returns the same outputs in the
\* same order as without it; the token counters advance for
\* generation-type outputs only, and a pooling-type output advances the
\* progress count by one
C37_ProgressIsCosmetic == ProgressIsCosmetic /\ CountersFollowOutputs

\* an encode call over two prompts returned with the bar at 2, the second
\* request having finished first
W37_PoolingOutOfOrder ==
    /\ progress.phase = "done"
    /\ progress.kind = "encode"
    /\ progress.runs[1].pbar_n = 2
    /\ Len(progress.runs[1].result.value) = 2
    /\ progress.runs[1].outputs # progress.runs[1].result.value

\* what an entry or the active vector holds in the object d: the tensor
\* referred to, or the entry itself
Held(d, entry) ==
    IF entry.kind = "Tensor" THEN d.tensors[entry.ref] ELSE entry

\* reset_steer_vector(index) is the step taken
IsReset(index) ==
    /\ direct' # direct
    /\ direct'.last = Called("reset_steer_vector", index, None)

\* the step leaves the entries other than index, and what they hold, as
\* they were
OtherEntriesKept(index) ==
    \A j \in SteerIndexes \ {index} :
        /\ direct'.steer_vectors[j] = direct.steer_vectors[j]
        /\ Held(direct', direct'.steer_vectors[j]) =
               Held(direct, direct.steer_vectors[j])

ActiveVectorKept ==
    /\ direct'.active_vector = direct.active_vector
    /\ Held(direct', direct'.active_vector) =
           Held(direct, direct.active_vector)

\* the frame of reset_steer_vector: the entry at index becomes zeros of the
\* same shape, or None if it held no tensor; an unregistered index stays
\* unregistered
ResetChangesOneEntry ==
    \A index \in SteerIndexes :
        IsReset(index) =>
            LET before == direct.steer_vectors[index]
                after == direct'.steer_vectors[index]
            IN /\ OtherEntriesKept(index)
               /\ ActiveVectorKept
               /\ before.kind = "absent" => after = before
               /\ before.kind = "Tensor" =>
                     /\ after.kind = "Tensor"
                     /\ Held(direct', after) = Zeros(Held(direct, before))
               /\ before.kind \in {"int", "None"} => after = NonTensor("None")

\* set_active_tensor(index): the active vector is the stored tensor, or
\* None when index is None, unregistered or holds no tensor
ActiveIsStoredTensor ==
    \A index \in SteerIndexes \cup {0} :
        (/\ direct' # direct
         /\ direct'.last = Called("set_active_tensor", index, None)) =>
            /\ direct'.steer_vectors = direct.steer_vectors
            /\ direct'.tensors = direct.tensors
            /\ IF index # 0 /\ direct.steer_vectors[index].kind = "Tensor"
               THEN direct'.active_vector = direct.steer_vectors[index]
               ELSE direct'.active_vector = NonTensor("None")

\* C38: reset_steer_vector(index) changes the entry at index only (zeros
\* of the same shape, or None for a non-tensor) and leaves active_vector
\* and the other entries as they were, an unregistered index included; so
\* the active vector outlives the reset of its entry; set_active_tensor
\* makes the stored tensor active, or None
C38_ResetLeavesActiveVector ==
    [][ResetChangesOneEntry /\ ActiveIsStoredTensor]_vars

\* after set_steer_vector(1), set_active_tensor(1), reset_steer_vector(1):
\* the entry is zeros and the active vector is still the tensor stored
\* before
W38_ActiveOutlivesReset ==
    /\ direct.last = Called("reset_steer_vector", 1, None)
    /\ direct.active_vector.kind = "Tensor"
    /\ direct.steer_vectors[1].kind = "Tensor"
    /\ direct.active_vector # direct.steer_vectors[1]
    /\ Held(direct, direct.active_vector).value # 0
    /\ Held(direct, direct.steer_vectors[1]) =
           Zeros(Held(direct, direct.active_vector))

\* a context is left normally / by an exception of its body
LeavesContext(op) ==
    /\ Len(legacy_contexts'.stack) < Len(legacy_contexts.stack)
    /\ legacy_contexts'.last.op = op

\* C39: the flag is true while the body of a context runs; after a normal
\* exit it is false whatever it was before the entry; if the body raises
\* it stays true (legacy_contexts.last is the step that led to the state)
C39_FlagTrueInContext ==
    /\ legacy_contexts.stack # <<>> => DEPRECATE_LEGACY
    /\ legacy_contexts.last.op = "exit" => ~DEPRECATE_LEGACY
    /\ legacy_contexts.last.op = "raise" => DEPRECATE_LEGACY

\* the innermost context has seen no context of its body exit normally
NoNestedExit ==
    /\ legacy_contexts.stack # <<>>
    /\ ~legacy_contexts.stack[Len(legacy_contexts.stack)].nested_exited

\* C39, amended: the flag is true while the body of a context runs and if
\* the body raises, as long as no context nested in that body has exited
\* normally before; a body that raises leaves the flag as it is; after a
\* normal exit the flag is false whatever it was before the entry
C39_FlagTrueUntilNestedExit ==
    /\ [](\A k \in 1..Len(legacy_contexts.stack) :
             ~legacy_contexts.stack[k].nested_exited => DEPRECATE_LEGACY)
    /\ [][LeavesContext("exit") => ~DEPRECATE_LEGACY']_vars
    /\ [][LeavesContext("raise") =>
             /\ DEPRECATE_LEGACY' = DEPRECATE_LEGACY
             /\ NoNestedExit => DEPRECATE_LEGACY']_vars

\* a context entered with the flag false has been left by an exception of
\* its body, no context is open and the flag is true
W39_RaisedAfterEnteringWithFalse ==
    /\ legacy_contexts.stack = <<>>
    /\ legacy_contexts.last = [op |-> "raise", flag |-> FALSE]
    /\ DEPRECATE_LEGACY

====
